---- MODULE Spec2Model ----
(***************************************************************************)
(* A model of pb_manager's instance lifecycle manager: the registry        *)
(* (SQLAlchemy table `instances`), the instances directory on disk, the    *)
(* PM2 supervisor and the download cache, with the request handlers of     *)
(* core/instance_service.py and routes/api.py as step-wise actions.        *)
(* A worker is one request thread; a step is one statement (or one group   *)
(* of adjacent statements) of the handler it runs.  A step that touches    *)
(* the disk, the database or an external command has a succeeding and a    *)
(* failing outcome.  The statements of an `except` handler are taken to    *)
(* succeed (the handlers are best-effort and have no handler of their own).*)
(***************************************************************************)
EXTENDS Integers, Sequences, FiniteSets, TLC

VARIABLES
    registry,   \* the rows of table `instances` (committed state)
    fs,         \* the instances directory: directory name -> its contents
    pm2,        \* the supervisor's process list: process name -> status
    cache,      \* versions whose executable is in the downloads cache
    wk          \* request threads: the handler each runs, its position, its locals

vars == <<registry, fs, pm2, cache, wk>>

(***************************************************************************)
(* Bounds and inputs                                                       *)
(***************************************************************************)
\* Request threads.  The serial specification uses the first only.
Workers == {1, 2}

\* Callers supply ports DEFAULT_PORT_START .. DEFAULT_PORT_START + PortSpan.
PortSpan == 0
\* Creates are accepted while the next row id is at most MaxId and the next
\* port is below DEFAULT_PORT_START + MaxId; callers address the instance
\* ids 1 .. MaxId.
MaxId == 2

DEFAULT_PORT_START == 7200

\* The registries the port allocator is asked about hold ports from
\* DEFAULT_PORT_START - PortsBelow to DEFAULT_PORT_START + PortsAbove.
PortsBelow == 2
PortsAbove == 4

None == "None"
NoFile == "nofile"
Partial == "partial"

Versions == {"v1", "v2"}

\* Raw names given to create.  "a" and "A!" sanitize to the same name.
RawNames == { <<"a">>, <<"A", "!">>, <<"b">>, <<"_">> }

\* The port argument of create: {} is Python's None (let the allocator
\* choose), {p} a port the caller supplies.
PortInputs == {{}} \cup {{DEFAULT_PORT_START + k} : k \in 0..PortSpan}
IdInputs == 1..MaxId

\* Raw names given to sanitize_name: every string of at most MaxLen of the
\* characters Chars, and the name "My App!! 01".
MaxLen == 3
\* LATIN CAPITAL LETTER I WITH DOT ABOVE, a letter.
IDotAbove == "U+0130"
\* COMBINING DOT ABOVE, a mark (category Mn): not a word character.
CombiningDot == "U+0307"
Chars == {"a", "A", "0", "_", "-", "!", " ", "é", IDotAbove}
MyApp == <<"M", "y", " ", "A", "p", "p", "!", "!", " ", "0", "1">>
SanitizeInputs == UNION {[1..n -> Chars] : n \in 0..MaxLen} \cup {MyApp}

(***************************************************************************)
(* InstanceService.sanitize_name                                           *)
(***************************************************************************)
Letters == {"a", "b", "i", "m", "p", "y", "A", "B", "M", "é", "É", IDotAbove}
Digits == {"0", "1"}
\* Python 3's \w on str: Unicode letters, digits and the underscore.
IsWordChar(c) == c \in Letters \cup Digits \cup {"_"}

\* re.sub(r'[^\w\-]', '_', name)
ReplaceSpecial(s) ==
    [i \in 1..Len(s) |-> IF IsWordChar(s[i]) \/ s[i] = "-" THEN s[i] ELSE "_"]

\* re.sub(r'_+', '_', name)
RECURSIVE CollapseUnderscores(_)
CollapseUnderscores(s) ==
    IF Len(s) <= 1 THEN s
    ELSE IF s[1] = "_" /\ s[2] = "_" THEN CollapseUnderscores(Tail(s))
    ELSE <<s[1]>> \o CollapseUnderscores(Tail(s))

\* str.lower()
LowerChar(c) ==
    CASE c = "A" -> "a"
      [] c = "B" -> "b"
      [] c = "M" -> "m"
      [] c = "É" -> "é"
      [] OTHER -> c
\* The lowercase of LATIN CAPITAL LETTER I WITH DOT ABOVE is two characters:
\* "i" and the combining dot above.
RECURSIVE Lower(_)
Lower(s) ==
    IF s = <<>> THEN <<>>
    ELSE (IF s[1] = IDotAbove THEN <<"i", CombiningDot>> ELSE <<LowerChar(s[1])>>)
         \o Lower(Tail(s))

\* str.strip('_')
RECURSIVE LStrip(_)
LStrip(s) == IF s # <<>> /\ s[1] = "_" THEN LStrip(Tail(s)) ELSE s
RECURSIVE RStrip(_)
RStrip(s) ==
    IF s # <<>> /\ s[Len(s)] = "_" THEN RStrip(SubSeq(s, 1, Len(s) - 1)) ELSE s
Strip(s) == RStrip(LStrip(s))

sanitize_name(name) == Strip(Lower(CollapseUnderscores(ReplaceSpecial(name))))

\* Directory names under INSTANCES_DIR that a create can address.  The empty
\* name addresses INSTANCES_DIR itself (Path / "" is the path).
DirNames == { sanitize_name(r) : r \in RawNames }

\* pm2_name = f"pb_{sanitized_name}"
Pm2Name(name) == <<"p", "b", "_">> \o name

(***************************************************************************)
(* The disk                                                                *)
(***************************************************************************)
\* A directory: whether it exists, run.sh ({}: no such file, {text}: its
\* text), the bytes of pocketbase and pocketbase.backup (NoFile, the
\* version they were copied from, or Partial after an interrupted copy), and
\* pb_data/data.db ({}: no such file, {S}: its _superusers table holds the
\* ids S).
NoDir ==
    [exists |-> FALSE, script |-> {}, exe |-> NoFile, backup |-> NoFile, admins |-> {}]
EmptyDir ==
    [exists |-> TRUE, script |-> {}, exe |-> NoFile, backup |-> NoFile, admins |-> {}]

\* instance_dir.exists(); INSTANCES_DIR itself is made by Config.
DirExists(d) == d = <<>> \/ fs[d].exists

\* The text of run.sh, by the fields the template interpolates.
RunScript(name, version, port, dev_mode, dir) ==
    [instance |-> name, version |-> version, port |-> port, dev_mode |-> dev_mode,
     cd |-> dir, http |-> port, dev_flag |-> IF dev_mode THEN "--dev" ELSE ""]

\* A template that leaves the dev flag out of the command line.
RegeneratedScriptNoDevFlag(instance) ==
    [instance |-> instance.name, version |-> instance.version,
     port |-> instance.port, dev_mode |-> instance.dev_mode,
     cd |-> instance.pb_path, http |-> instance.port, dev_flag |-> ""]

\* The text of run.sh as regenerate_run_script makes it (lines 428-456), by
\* the fields of the row that its template interpolates.
RegeneratedScript(instance) ==
    [instance |-> instance.name, version |-> instance.version,
     port |-> instance.port, dev_mode |-> instance.dev_mode,
     cd |-> instance.pb_path, http |-> instance.port,
     dev_flag |-> IF instance.dev_mode THEN "--dev" ELSE ""]

(***************************************************************************)
(* The registry                                                            *)
(***************************************************************************)
Max(S) == CHOOSE x \in S : \A y \in S : y <= x

\* INTEGER PRIMARY KEY of SQLite: the largest rowid in the table plus one.
NextId == IF registry = {} THEN 1 ELSE Max({r.id : r \in registry}) + 1

\* Instance.query.get(instance_id)
get_instance(id) == {r \in registry : r.id = id}

\* The constraints without unique=True on port.
UniqueOkPortNotUnique(row) ==
    \A r \in registry :
        /\ r.id # row.id
        /\ r.name # row.name
        /\ r.pm2_name # row.pm2_name

\* The table's constraints: primary key, and unique=True on name, port, pm2_name.
UniqueOk(row) ==
    \A r \in registry :
        /\ r.id # row.id
        /\ r.name # row.name
        /\ r.port # row.port
        /\ r.pm2_name # row.pm2_name

\* An allocator that hands out the lowest port at or above the floor that
\* no instance has.
NextPortLowestFree ==
    LET ports == {r.port : r \in registry}
        free == {p \in DEFAULT_PORT_START..(DEFAULT_PORT_START + Cardinality(ports)) :
                    p \notin ports}
    IN  CHOOSE p \in free : \A q \in free : p <= q

\* The allocator without the floor.
NextPortNoFloor ==
    IF registry = {} THEN DEFAULT_PORT_START
    ELSE Max({r.port : r \in registry}) + 1

get_next_available_port ==
    IF registry = {} THEN DEFAULT_PORT_START
    ELSE LET highest_port == Max({r.port : r \in registry})
         IN  IF highest_port + 1 >= DEFAULT_PORT_START
             THEN highest_port + 1 ELSE DEFAULT_PORT_START

(***************************************************************************)
(* Request threads                                                         *)
(***************************************************************************)
\* A thread between requests.  res, err: the outcome of its last request;
\* at: the statement that failed; was: what the request found when it began;
\* admin: whether create was given admin credentials; failed: the supervisor
\* commands of the request that failed.
Idle ==
    [op |-> "idle", pc |-> "done", name |-> <<>>, version |-> None,
     port_arg |-> {}, port |-> 0, dev_mode |-> FALSE, id |-> 0,
     remove_files |-> TRUE, res |-> "none", err |-> "none", at |-> "none",
     log |-> <<>>, was |-> None, admin |-> FALSE, failed |-> {}]

Ready(w) == wk[w].pc = "done"

Set(w, rec) == wk' = [wk EXCEPT ![w] = rec]
Goto(w, pc) == Set(w, [wk[w] EXCEPT !.pc = pc])
\* raise out of the handler: the request ends with an error
Raise(w, kind, step) ==
    Set(w, [wk[w] EXCEPT !.pc = "done", !.res = "err", !.err = kind, !.at = step])
\* raise inside a try block: control moves to its except handler
Except(w, handler, step) ==
    Set(w, [wk[w] EXCEPT !.pc = handler, !.at = step])
Return(w) == Set(w, [wk[w] EXCEPT !.pc = "done", !.res = "ok"])

Init ==
    /\ registry = {}
    /\ fs = [d \in DirNames \ {<<>>} |-> NoDir]
    /\ pm2 = [p \in {Pm2Name(d) : d \in DirNames} |-> "absent"]
    /\ cache = {}
    /\ wk = [w \in Workers |-> Idle]

(***************************************************************************)
(* DownloadService.download_version: a cached version returns at once;     *)
(* otherwise the release is fetched, which may fail and then leaves the    *)
(* cache as it was (the version directory is removed again).               *)
(***************************************************************************)
DownloadCached(v) == v \in cache /\ UNCHANGED cache
DownloadFetched(v) == v \notin cache /\ cache' = cache \cup {v}
DownloadFailed(v) == v \notin cache /\ UNCHANGED cache

(***************************************************************************)
(* InstanceService.create_instance                                         *)
(***************************************************************************)
\* create_instance without the name query of line 288
CreateCheckNameNoQuery(w, raw, v, p, dm) ==
    /\ Ready(w)
    /\ NextId <= MaxId
    /\ get_next_available_port < DEFAULT_PORT_START + MaxId
    /\ Set(w, [Idle EXCEPT !.op = "create", !.name = sanitize_name(raw),
                           !.version = v, !.port_arg = p, !.dev_mode = dm,
                           !.pc = "c_port"])
    /\ UNCHANGED <<registry, fs, pm2, cache>>

\* lines 268-289: the call, with or without admin credentials; sanitize,
\* then the name query
CreateCall(w, raw, v, p, dm, admin) ==
    /\ Ready(w)
    /\ NextId <= MaxId
    /\ get_next_available_port < DEFAULT_PORT_START + MaxId
    /\ LET sanitized_name == sanitize_name(raw)
           call == [Idle EXCEPT !.op = "create", !.name = sanitized_name,
                                !.version = v, !.port_arg = p, !.dev_mode = dm,
                                !.admin = admin]
       IN  IF \E r \in registry : r.name = sanitized_name
           THEN Set(w, [call EXCEPT !.res = "err", !.err = "name_exists",
                                    !.at = "c_name"])
           ELSE Set(w, [call EXCEPT !.pc = "c_port"])
    /\ UNCHANGED <<registry, fs, pm2, cache>>

\* create_instance called without admin credentials
CreateCheckName(w, raw, v, p, dm) == CreateCall(w, raw, v, p, dm, FALSE)

\* The port step without the query of line 292.
CreateGetPortNoQuery(w) ==
    /\ wk[w].pc = "c_port"
    /\ IF wk[w].port_arg = {}
       THEN Set(w, [wk[w] EXCEPT !.port = get_next_available_port, !.pc = "c_dl"])
       ELSE Set(w, [wk[w] EXCEPT !.port = CHOOSE p \in wk[w].port_arg : TRUE,
                                 !.pc = "c_dl"])
    /\ UNCHANGED <<registry, fs, pm2, cache>>

\* lines 291-295
CreateGetPort(w) ==
    /\ wk[w].pc = "c_port"
    /\ IF wk[w].port_arg = {}
       THEN Set(w, [wk[w] EXCEPT !.port = get_next_available_port, !.pc = "c_dl"])
       ELSE LET port == CHOOSE p \in wk[w].port_arg : TRUE
            IN  IF \E r \in registry : r.port = port
                THEN Raise(w, "port_in_use", "c_port")
                ELSE Set(w, [wk[w] EXCEPT !.port = port, !.pc = "c_dl"])
    /\ UNCHANGED <<registry, fs, pm2, cache>>

\* The download inside the try block: a failure goes to the except handler.
CreateDownloadInsideTry(w) ==
    /\ wk[w].pc = "c_dl"
    /\ \/ (DownloadCached(wk[w].version) \/ DownloadFetched(wk[w].version))
          /\ Goto(w, "c_dir")
       \/ DownloadFailed(wk[w].version) /\ Except(w, "c_cleanup", "c_dl")
    /\ UNCHANGED <<registry, fs, pm2>>

\* lines 297-301
CreateDownload(w) ==
    /\ wk[w].pc = "c_dl"
    /\ \/ (DownloadCached(wk[w].version) \/ DownloadFetched(wk[w].version))
          /\ Goto(w, "c_dir")
       \/ DownloadFailed(wk[w].version) /\ Raise(w, "download", "c_dl")
    /\ UNCHANGED <<registry, fs, pm2>>

\* lines 303-306
\* The test of the directory inside the try block: the raise goes to the
\* except handler.
CreateCheckDirInsideTry(w) ==
    /\ wk[w].pc = "c_dir"
    /\ IF DirExists(wk[w].name)
       THEN Except(w, "c_cleanup", "c_dir")
       ELSE Goto(w, "c_mkdir")
    /\ UNCHANGED <<registry, fs, pm2, cache>>

\* lines 303-306

CreateCheckDir(w) ==
    /\ wk[w].pc = "c_dir"
    /\ IF DirExists(wk[w].name)
       THEN Raise(w, "dir_exists", "c_dir")
       ELSE Goto(w, "c_mkdir")
    /\ UNCHANGED <<registry, fs, pm2, cache>>

\* The directories made outside the try block: a failure leaves create at once.
CreateMkdirOutsideTry(w) ==
    /\ wk[w].pc = "c_mkdir"
    /\ LET d == wk[w].name
           made == [fs EXCEPT ![d].exists = TRUE]
       IN  \/ fs' = made /\ Goto(w, "c_script")
           \/ fs' \in {fs, made} /\ Raise(w, "create_failed", "c_mkdir")
    /\ UNCHANGED <<registry, pm2, cache>>

\* lines 309-315: mkdir(parents=True, exist_ok=True) and the four subdirectories.
\* A failure may come before or after the instance directory itself was made.
CreateMkdir(w) ==
    /\ wk[w].pc = "c_mkdir"
    /\ LET d == wk[w].name
           made == [fs EXCEPT ![d].exists = TRUE]
       IN  \/ fs' = made /\ Goto(w, "c_script")
           \/ fs' \in {fs, made} /\ Except(w, "c_cleanup", "c_mkdir")
    /\ UNCHANGED <<registry, pm2, cache>>

\* lines 317-351: open(run_script_path, 'w') and write, which need the
\* directory, then os.chmod(run_script_path, 0o755)
CreateWriteScript(w) ==
    /\ wk[w].pc = "c_script"
    /\ LET d == wk[w].name
           text == RunScript(d, wk[w].version, wk[w].port, wk[w].dev_mode, d)
           written == [fs EXCEPT ![d].script = {text}]
       IN  \/ fs[d].exists /\ fs' = written /\ Goto(w, "c_copy")
           \/ UNCHANGED fs /\ Except(w, "c_cleanup", "c_script")
           \/ fs[d].exists /\ fs' = written /\ Except(w, "c_cleanup", "c_chmod")
    /\ UNCHANGED <<registry, pm2, cache>>

\* The copy outside the try block: a failure leaves the handler at once.
CreateCopyExeOutsideTry(w) ==
    /\ wk[w].pc = "c_copy"
    /\ LET d == wk[w].name
           copied == [fs EXCEPT ![d].exe = wk[w].version]
       IN  \/ fs[d].exists /\ fs' = copied /\ Goto(w, "c_commit")
           \/ /\ fs' \in {fs} \cup
                        (IF fs[d].exists THEN {[fs EXCEPT ![d].exe = Partial]} ELSE {})
              /\ Raise(w, "create_failed", "c_copy")
           \/ fs[d].exists /\ fs' = copied /\ Raise(w, "create_failed", "c_chmodexe")
    /\ UNCHANGED <<registry, pm2, cache>>

\* lines 353-361: shutil.copy2(exe_path, instance_exe), then
\* os.chmod(instance_exe, 0o755) on linux and darwin
CreateCopyExe(w) ==
    /\ wk[w].pc = "c_copy"
    /\ LET d == wk[w].name
           copied == [fs EXCEPT ![d].exe = wk[w].version]
       IN  \/ fs[d].exists /\ fs' = copied /\ Goto(w, "c_commit")
           \/ /\ fs' \in {fs} \cup
                        (IF fs[d].exists THEN {[fs EXCEPT ![d].exe = Partial]} ELSE {})
              /\ Except(w, "c_cleanup", "c_copy")
           \/ fs[d].exists /\ fs' = copied /\ Except(w, "c_cleanup", "c_chmodexe")
    /\ UNCHANGED <<registry, pm2, cache>>

\* The row with the bare name as pm2_name.
CreateRowBareName(w) ==
    [id |-> NextId, name |-> wk[w].name, version |-> wk[w].version,
     port |-> wk[w].port, pm2_name |-> wk[w].name,
     pb_path |-> wk[w].name, dev_mode |-> wk[w].dev_mode, domain |-> None]

\* lines 363-374
CreateRow(w) ==
    [id |-> NextId, name |-> wk[w].name, version |-> wk[w].version,
     port |-> wk[w].port, pm2_name |-> Pm2Name(wk[w].name),
     pb_path |-> wk[w].name, dev_mode |-> wk[w].dev_mode, domain |-> None]

\* lines 376-389: db.session.add(instance); db.session.commit(); then the
\* superuser step when admin credentials were given, else return.
\* The database refuses a row that breaks a constraint (IntegrityError);
\* the commit may also fail for a reason of its own (OperationalError).
CreateCommit(w) ==
    /\ wk[w].pc = "c_commit"
    /\ \/ /\ UniqueOk(CreateRow(w))
          /\ registry' = registry \cup {CreateRow(w)}
          /\ IF wk[w].admin
             THEN Set(w, [wk[w] EXCEPT !.pc = "c_superuser", !.id = NextId])
             ELSE Set(w, [wk[w] EXCEPT !.pc = "done", !.res = "ok", !.id = NextId])
       \/ /\ ~UniqueOk(CreateRow(w))
          /\ UNCHANGED registry
          /\ Except(w, "c_cleanup", "c_integrity")
       \/ UNCHANGED registry /\ Except(w, "c_cleanup", "c_commit")
    /\ UNCHANGED <<fs, pm2, cache>>

\* The handler without the rmtree of lines 393-394.
CreateCleanupKeepsDir(w) ==
    /\ wk[w].pc = "c_cleanup"
    /\ UNCHANGED fs
    /\ Set(w, [wk[w] EXCEPT !.pc = "done", !.res = "err", !.err = "create_failed"])
    /\ UNCHANGED <<registry, pm2, cache>>

\* lines 391-396: if instance_dir.exists(): shutil.rmtree(instance_dir);
\* db.session.rollback(); raise
CreateCleanup(w) ==
    /\ wk[w].pc = "c_cleanup"
    /\ fs' = [fs EXCEPT ![wk[w].name] = NoDir]
    /\ Set(w, [wk[w] EXCEPT !.pc = "done", !.res = "err", !.err = "create_failed"])
    /\ UNCHANGED <<registry, pm2, cache>>

\* The superuser step with no handler of its own: a failure reaches the
\* except handler of create.
CreateSuperuserRaises(w) ==
    /\ wk[w].pc = "c_superuser"
    /\ LET d == wk[w].name
           table == UNION fs[d].admins
       IN  \/ /\ fs' = [fs EXCEPT ![d].admins = {table \cup {"u1"}}]
              /\ Set(w, [wk[w] EXCEPT !.pc = "done", !.res = "ok",
                                      !.log = <<"superuser_ok">>])
           \/ /\ UNCHANGED fs
              /\ \E how \in {"superuser_failed", "superuser_timeout"} :
                    Set(w, [wk[w] EXCEPT !.pc = "c_cleanup", !.at = "c_superuser",
                                         !.log = <<how>>])
    /\ UNCHANGED <<registry, pm2, cache>>

\* lines 380-389 with create_superuser (42-80): `pocketbase superuser upsert`
\* exits zero and the account is in _superusers, or it exits non-zero or
\* times out after 30 s and create_superuser raises; create prints a warning
\* and returns the instance all the same.
CreateSuperuser(w) ==
    /\ wk[w].pc = "c_superuser"
    /\ LET d == wk[w].name
           table == UNION fs[d].admins
       IN  \/ /\ fs' = [fs EXCEPT ![d].admins = {table \cup {"u1"}}]
              /\ Set(w, [wk[w] EXCEPT !.pc = "done", !.res = "ok",
                                      !.log = <<"superuser_ok">>])
           \/ /\ UNCHANGED fs
              /\ \E how \in {"superuser_failed", "superuser_timeout"} :
                    Set(w, [wk[w] EXCEPT !.pc = "done", !.res = "ok",
                                         !.log = <<how>>])
    /\ UNCHANGED <<registry, pm2, cache>>

CreateSteps(w) ==
    \/ CreateGetPort(w)
    \/ CreateDownload(w)
    \/ CreateCheckDir(w)
    \/ CreateMkdir(w)
    \/ CreateWriteScript(w)
    \/ CreateCopyExe(w)
    \/ CreateCommit(w)
    \/ CreateCleanup(w)

(***************************************************************************)
(* PM2Service: each command is one run of the pm2 command line, which      *)
(* succeeds (exit code 0) and has its effect, or fails (non-zero exit,     *)
(* timeout) and leaves the process list as it was.                         *)
(***************************************************************************)
\* get_all_status / get_instance_status / is_running: jlist_ok is whether the
\* `pm2 jlist` run succeeded and parsed; a failed query yields the empty map.
\* is_running taking a query that failed for a process that runs
IsRunningUnlessKnown(pm2_name, jlist_ok) == ~jlist_ok \/ pm2[pm2_name] = "online"

is_running(pm2_name, jlist_ok) == jlist_ok /\ pm2[pm2_name] = "online"

\* stop_instance: `pm2 stop` exits non-zero for a name it does not know
Pm2StopOk(p) == pm2[p] # "absent" /\ pm2' = [pm2 EXCEPT ![p] = "stopped"]
\* delete_instance: `pm2 delete` exits non-zero for a name it does not know
Pm2DeleteOk(p) == pm2[p] # "absent" /\ pm2' = [pm2 EXCEPT ![p] = "absent"]
\* start_instance: `pm2 start run.sh --name p`
Pm2StartOk(p) == pm2[p] # "online" /\ pm2' = [pm2 EXCEPT ![p] = "online"]
Pm2Failed == UNCHANGED pm2

(***************************************************************************)
(* InstanceService.update_version                                          *)
(***************************************************************************)
\* What update_version finds when it begins.
UpdateFinds(instance, jlist_ok) ==
    [version |-> instance.version,
     exe |-> fs[instance.pb_path].exe,
     running |-> is_running(instance.pm2_name, jlist_ok),
     jlist_ok |-> jlist_ok]

\* update_version without the is_running test of lines 198-200
UpdateCallNoRunningTest(w, id, v, jlist_ok) ==
    /\ Ready(w)
    /\ LET call == [Idle EXCEPT !.op = "update", !.id = id, !.version = v]
       IN  IF get_instance(id) = {}
           THEN Set(w, [call EXCEPT !.res = "err", !.err = "not_found", !.at = "u_get"])
           ELSE LET instance == CHOOSE r \in get_instance(id) : TRUE
                IN  Set(w, [call EXCEPT !.name = instance.pb_path,
                                        !.was = UpdateFinds(instance, jlist_ok),
                                        !.pc = "u_dl"])
    /\ UNCHANGED <<registry, fs, pm2, cache>>

\* lines 194-206: get_instance, is_running, the paths
UpdateCall(w, id, v, jlist_ok) ==
    /\ Ready(w)
    /\ LET call == [Idle EXCEPT !.op = "update", !.id = id, !.version = v]
       IN  IF get_instance(id) = {}
           THEN Set(w, [call EXCEPT !.res = "err", !.err = "not_found", !.at = "u_get"])
           ELSE LET instance == CHOOSE r \in get_instance(id) : TRUE
                    found == [call EXCEPT !.name = instance.pb_path,
                                          !.was = UpdateFinds(instance, jlist_ok)]
                IN  IF is_running(instance.pm2_name, jlist_ok)
                    THEN Set(w, [found EXCEPT !.res = "err", !.err = "must_stop",
                                              !.at = "u_running"])
                    ELSE Set(w, [found EXCEPT !.pc = "u_dl"])
    /\ UNCHANGED <<registry, fs, pm2, cache>>

\* line 210
UpdateDownload(w) ==
    /\ wk[w].pc = "u_dl"
    /\ \/ (DownloadCached(wk[w].version) \/ DownloadFetched(wk[w].version))
          /\ Goto(w, "u_backup")
       \/ DownloadFailed(wk[w].version) /\ Except(w, "u_restore", "u_dl")
    /\ UNCHANGED <<registry, fs, pm2>>

\* lines 212-213: if instance_exe.exists(): shutil.copy2(instance_exe, backup_exe)
UpdateBackup(w) ==
    /\ wk[w].pc = "u_backup"
    /\ LET d == wk[w].name
       IN  IF fs[d].exe = NoFile
           THEN UNCHANGED fs /\ Goto(w, "u_copy")
           ELSE \/ /\ fs' = [fs EXCEPT ![d].backup = fs[d].exe]
                   /\ Set(w, [wk[w] EXCEPT !.pc = "u_copy", !.log = <<"backup">>])
                \/ /\ fs' \in {fs, [fs EXCEPT ![d].backup = Partial]}
                   /\ Except(w, "u_restore", "u_backup")
    /\ UNCHANGED <<registry, pm2, cache>>

\* lines 215-221: shutil.copy2(exe_path, instance_exe), then os.chmod
UpdateCopyExe(w) ==
    /\ wk[w].pc = "u_copy"
    /\ LET d == wk[w].name
           copied == [fs EXCEPT ![d].exe = wk[w].version]
       IN  \/ fs[d].exists /\ fs' = copied /\ Goto(w, "u_commit")
           \/ /\ fs' \in {fs} \cup
                        (IF fs[d].exists THEN {[fs EXCEPT ![d].exe = Partial]} ELSE {})
              /\ Except(w, "u_restore", "u_copy")
           \/ fs[d].exists /\ fs' = copied /\ Except(w, "u_restore", "u_chmod")
    /\ UNCHANGED <<registry, pm2, cache>>

\* lines 223-225: instance.version = new_version; db.session.commit()
SetVersion(id, v) ==
    {IF r.id = id THEN [r EXCEPT !.version = v] ELSE r : r \in registry}

UpdateCommit(w) ==
    /\ wk[w].pc = "u_commit"
    /\ \/ registry' = SetVersion(wk[w].id, wk[w].version) /\ Goto(w, "u_unlink")
       \/ UNCHANGED registry /\ Except(w, "u_restore", "u_commit")
    /\ UNCHANGED <<fs, pm2, cache>>

\* lines 227-232: if backup_exe.exists(): backup_exe.unlink(); return True
UpdateUnlink(w) ==
    /\ wk[w].pc = "u_unlink"
    /\ LET d == wk[w].name
       IN  IF fs[d].backup = NoFile
           THEN UNCHANGED fs /\ Return(w)
           ELSE \/ fs' = [fs EXCEPT ![d].backup = NoFile] /\ Return(w)
                \/ UNCHANGED fs /\ Except(w, "u_restore", "u_unlink")
    /\ UNCHANGED <<registry, pm2, cache>>

\* The handler removing the backup without copying it back.
RestoredWithoutCopy(dir) == [dir EXCEPT !.backup = NoFile]

\* lines 234-240: if backup_exe.exists() and instance_exe.exists():
\* copy2(backup_exe, instance_exe); backup_exe.unlink(); rollback; raise
Restored(dir) ==
    IF dir.backup # NoFile /\ dir.exe # NoFile
    THEN [dir EXCEPT !.exe = dir.backup, !.backup = NoFile]
    ELSE dir

UpdateRestore(w) ==
    /\ wk[w].pc = "u_restore"
    /\ fs' = [fs EXCEPT ![wk[w].name] = Restored(fs[wk[w].name])]
    /\ Set(w, [wk[w] EXCEPT !.pc = "done", !.res = "err", !.err = "update_failed"])
    /\ UNCHANGED <<registry, pm2, cache>>

UpdateSteps(w) ==
    \/ UpdateDownload(w)
    \/ UpdateBackup(w)
    \/ UpdateCopyExe(w)
    \/ UpdateCommit(w)
    \/ UpdateUnlink(w)
    \/ UpdateRestore(w)

(***************************************************************************)
(* InstanceService.delete_instance                                         *)
(***************************************************************************)
\* The row removed before the files.
DeleteOrderRowFirst(pc) ==
    CASE pc = "d_stop" -> "d_pm2del"
      [] pc = "d_pm2del" -> "d_commit"
      [] pc = "d_commit" -> "d_rm"
      [] pc = "d_rm" -> "done"

\* The statements of the try block in the order the code runs them: what
\* follows each.
DeleteOrder(pc) ==
    CASE pc = "d_stop" -> "d_pm2del"
      [] pc = "d_pm2del" -> "d_rm"
      [] pc = "d_rm" -> "d_commit"
      [] pc = "d_commit" -> "done"

\* A statement of delete is done: note it and move to the next.
DeleteAdvanced(w, step) ==
    [wk[w] EXCEPT !.pc = DeleteOrder(wk[w].pc),
                  !.log = IF step = "" THEN @ ELSE Append(@, step),
                  !.res = IF DeleteOrder(wk[w].pc) = "done" THEN "ok" ELSE @]
DeleteAdvance(w, step) == Set(w, DeleteAdvanced(w, step))
\* A supervisor command of delete returned False: delete goes on all the same.
DeleteIgnore(w, step) ==
    Set(w, [DeleteAdvanced(w, step) EXCEPT !.failed = @ \cup {step}])
\* lines 501-503: db.session.rollback(); raise
DeleteFailed(w, step) == Raise(w, "delete_failed", step)

\* lines 476-482: get_instance, then the is_running test
DeleteCall(w, id, remove_files, jlist_ok) ==
    /\ Ready(w)
    /\ LET call == [Idle EXCEPT !.op = "delete", !.id = id,
                                !.remove_files = remove_files]
       IN  IF get_instance(id) = {}
           THEN Set(w, [call EXCEPT !.res = "err", !.err = "not_found", !.at = "d_get"])
           ELSE LET instance == CHOOSE r \in get_instance(id) : TRUE
                    running == is_running(instance.pm2_name, jlist_ok)
                IN  Set(w, [call EXCEPT
                              !.name = instance.pb_path,
                              !.port = instance.port,
                              !.was = [dir |-> DirExists(instance.pb_path),
                                       pm2 |-> pm2[instance.pm2_name],
                                       running |-> running,
                                       jlist_ok |-> jlist_ok],
                              !.pc = IF running THEN "d_stop" ELSE "d_pm2del"])
    /\ UNCHANGED <<registry, fs, pm2, cache>>

\* line 483: self.pm2_service.stop_instance(...); its result is not looked at
DeleteStop(w) ==
    /\ wk[w].pc = "d_stop"
    /\ \/ Pm2StopOk(Pm2Name(wk[w].name)) /\ DeleteAdvance(w, "stop")
       \/ Pm2Failed /\ DeleteIgnore(w, "stop")
    /\ UNCHANGED <<registry, fs, cache>>

\* line 485: self.pm2_service.delete_instance(...); its result is not looked at
DeletePm2(w) ==
    /\ wk[w].pc = "d_pm2del"
    /\ \/ Pm2DeleteOk(Pm2Name(wk[w].name)) /\ DeleteAdvance(w, "pm2_delete")
       \/ Pm2Failed /\ DeleteIgnore(w, "pm2_delete")
    /\ UNCHANGED <<registry, fs, cache>>

\* rmtree without the instance_dir.exists() test of line 490
DeleteFilesNoExistsTest(w) ==
    /\ wk[w].pc = "d_rm"
    /\ LET d == wk[w].name
       IN  IF wk[w].remove_files
           THEN \/ /\ DirExists(d)
                   /\ fs' = [fs EXCEPT ![d] = NoDir]
                   /\ DeleteAdvance(w, "rmtree")
                \/ /\ fs' \in {fs} \cup
                             (IF DirExists(d) THEN {[fs EXCEPT ![d] = EmptyDir]} ELSE {})
                   /\ DeleteFailed(w, "d_rm")
           ELSE UNCHANGED fs /\ DeleteAdvance(w, "")
    /\ UNCHANGED <<registry, pm2, cache>>

\* lines 487-492: if remove_files: if instance_dir.exists(): shutil.rmtree(...)
\* An rmtree that fails may have removed the files it got to.
DeleteFiles(w) ==
    /\ wk[w].pc = "d_rm"
    /\ LET d == wk[w].name
       IN  IF wk[w].remove_files /\ DirExists(d)
           THEN \/ fs' = [fs EXCEPT ![d] = NoDir] /\ DeleteAdvance(w, "rmtree")
                \/ fs' \in {fs, [fs EXCEPT ![d] = EmptyDir]} /\ DeleteFailed(w, "d_rm")
           ELSE UNCHANGED fs /\ DeleteAdvance(w, "")
    /\ UNCHANGED <<registry, pm2, cache>>

\* lines 494-499: db.session.delete(instance); db.session.commit(); return True
DeleteCommit(w) ==
    /\ wk[w].pc = "d_commit"
    /\ \/ /\ get_instance(wk[w].id) # {}
          /\ registry' = registry \ get_instance(wk[w].id)
          /\ DeleteAdvance(w, "db_delete")
       \/ UNCHANGED registry /\ DeleteFailed(w, "d_commit")
    /\ UNCHANGED <<fs, pm2, cache>>

DeleteSteps(w) ==
    \/ DeleteStop(w)
    \/ DeletePm2(w)
    \/ DeleteFiles(w)
    \/ DeleteCommit(w)

(***************************************************************************)
(* routes/api.py: start and stop                                           *)
(***************************************************************************)
\* The `pm2 start` command line of pm2_service.py 51-56: the process name,
\* the script and the working directory it is given.
StartCommand(instance) ==
    [name |-> instance.pm2_name, script |-> <<instance.pb_path, "run.sh">>,
     cwd |-> instance.pb_path]

\* start without the tests of the executable and of run.sh
StartInstanceNoFileTests(w, id) ==
    /\ Ready(w)
    /\ LET call == [Idle EXCEPT !.op = "start", !.id = id]
           error(kind) == Set(w, [call EXCEPT !.res = "err", !.err = kind])
       IN  IF get_instance(id) = {}
           THEN UNCHANGED pm2 /\ error("not_found")
           ELSE LET instance == CHOOSE r \in get_instance(id) : TRUE
                    issued == [call EXCEPT !.log = <<"start">>,
                                           !.was = StartCommand(instance)]
                IN  \/ /\ Pm2StartOk(instance.pm2_name)
                       /\ Set(w, [issued EXCEPT !.res = "ok"])
                    \/ /\ Pm2Failed
                       /\ Set(w, [issued EXCEPT !.res = "err", !.err = "start_failed"])
    /\ UNCHANGED <<registry, fs, cache>>

\* start_instance (api.py 98-132) with PM2Service.start_instance (30-61):
\* the row, the executable (api.py 115), run.sh (pm2_service.py 48), then
\* the command
StartInstance(w, id) ==
    /\ Ready(w)
    /\ LET call == [Idle EXCEPT !.op = "start", !.id = id]
           error(kind) == Set(w, [call EXCEPT !.res = "err", !.err = kind])
       IN  IF get_instance(id) = {}
           THEN UNCHANGED pm2 /\ error("not_found")
           ELSE LET instance == CHOOSE r \in get_instance(id) : TRUE
                    d == instance.pb_path
                    issued == [call EXCEPT !.log = <<"start">>,
                                           !.was = StartCommand(instance)]
                IN  IF ~DirExists(d) \/ fs[d].exe = NoFile
                    THEN UNCHANGED pm2 /\ error("no_executable")
                    ELSE IF fs[d].script = {}
                    THEN UNCHANGED pm2 /\ error("no_script")
                    ELSE \/ /\ Pm2StartOk(instance.pm2_name)
                            /\ Set(w, [issued EXCEPT !.res = "ok"])
                         \/ /\ Pm2Failed
                            /\ Set(w, [issued EXCEPT !.res = "err",
                                                     !.err = "start_failed"])
    /\ UNCHANGED <<registry, fs, cache>>

\* stop_instance (api.py 135-155)
StopInstance(w, id) ==
    /\ Ready(w)
    /\ LET call == [Idle EXCEPT !.op = "stop", !.id = id]
           error(kind) == Set(w, [call EXCEPT !.res = "err", !.err = kind])
       IN  IF get_instance(id) = {}
           THEN UNCHANGED pm2 /\ error("not_found")
           ELSE LET instance == CHOOSE r \in get_instance(id) : TRUE
                IN  \/ /\ Pm2StopOk(instance.pm2_name)
                       /\ Set(w, [call EXCEPT !.res = "ok"])
                    \/ Pm2Failed /\ error("stop_failed")
    /\ UNCHANGED <<registry, fs, cache>>

(***************************************************************************)
(* routes/api.py: toggle_dev_mode, with InstanceService.update_dev_mode    *)
(* and InstanceService.regenerate_run_script                               *)
(***************************************************************************)
\* restart_instance: `pm2 restart` exits non-zero for a name it does not know
Pm2RestartOk(p) == pm2[p] # "absent" /\ pm2' = [pm2 EXCEPT ![p] = "online"]

\* What `pm2 jlist` reports for a process name: its status, or nothing when
\* the query failed or the name is not in the list.
Reported(pm2_name, jlist_ok) ==
    IF jlist_ok /\ pm2[pm2_name] # "absent" THEN pm2[pm2_name] ELSE "none"

\* api.py 189-194: get_instance_by_id, 404 when missing; new_dev_mode
ToggleCall(w, id) ==
    /\ Ready(w)
    /\ LET call == [Idle EXCEPT !.op = "toggle", !.id = id]
       IN  IF get_instance(id) = {}
           THEN Set(w, [call EXCEPT !.res = "err", !.err = "not_found", !.at = "t_get"])
           ELSE LET instance == CHOOSE r \in get_instance(id) : TRUE
                IN  Set(w, [call EXCEPT !.name = instance.pb_path,
                                        !.dev_mode = ~instance.dev_mode,
                                        !.was = [dev_mode |-> instance.dev_mode,
                                                 reported |-> "unasked"],
                                        !.pc = "t_commit"])
    /\ UNCHANGED <<registry, fs, pm2, cache>>

SetDevMode(id, dev_mode) ==
    {IF r.id = id THEN [r EXCEPT !.dev_mode = dev_mode] ELSE r : r \in registry}

\* api.py 197 and update_dev_mode (414-422): instance.dev_mode = dev_mode; commit
ToggleCommit(w) ==
    /\ wk[w].pc = "t_commit"
    /\ \/ /\ registry' = SetDevMode(wk[w].id, wk[w].dev_mode)
          /\ Set(w, [wk[w] EXCEPT !.pc = "t_script", !.log = Append(@, "commit")])
       \/ UNCHANGED registry /\ Raise(w, "toggle_failed", "t_commit")
    /\ UNCHANGED <<fs, pm2, cache>>

\* api.py 200 and regenerate_run_script (424-463): the text from the
\* instance's fields, open(run_script_path, 'w') and write, then os.chmod
ToggleScript(w) ==
    /\ wk[w].pc = "t_script"
    /\ LET instance == CHOOSE r \in get_instance(wk[w].id) : TRUE
           d == instance.pb_path
           text == RegeneratedScript(instance)
           written == [fs EXCEPT ![d].script = {text}]
       IN  \/ /\ fs[d].exists /\ fs' = written
              /\ Set(w, [wk[w] EXCEPT !.pc = "t_restart", !.log = Append(@, "script")])
           \/ UNCHANGED fs /\ Raise(w, "toggle_failed", "t_script")
           \/ fs[d].exists /\ fs' = written /\ Raise(w, "toggle_failed", "t_chmod")
    /\ UNCHANGED <<registry, pm2, cache>>

\* The restart issued whatever the supervisor reports.
ToggleRestartAlways(w, jlist_ok) ==
    /\ wk[w].pc = "t_restart"
    /\ LET p == Pm2Name(wk[w].name)
           asked == [wk[w] EXCEPT !.pc = "done", !.res = "ok",
                                  !.was.reported = Reported(p, jlist_ok),
                                  !.log = Append(@, "restart")]
       IN  \/ Pm2RestartOk(p) /\ Set(w, asked)
           \/ Pm2Failed /\ Set(w, [asked EXCEPT !.failed = {"restart"}])
    /\ UNCHANGED <<registry, fs, cache>>

\* api.py 203-211: was_running = is_running(...); if was_running:
\* restart_instance(...), whose result is not looked at; return success
ToggleRestart(w, jlist_ok) ==
    /\ wk[w].pc = "t_restart"
    /\ LET p == Pm2Name(wk[w].name)
           asked == [wk[w] EXCEPT !.pc = "done", !.res = "ok",
                                  !.was.reported = Reported(p, jlist_ok)]
       IN  IF is_running(p, jlist_ok)
           THEN \/ /\ Pm2RestartOk(p)
                   /\ Set(w, [asked EXCEPT !.log = Append(@, "restart")])
                \/ /\ Pm2Failed
                   /\ Set(w, [asked EXCEPT !.log = Append(@, "restart"),
                                           !.failed = {"restart"}])
           ELSE UNCHANGED pm2 /\ Set(w, asked)
    /\ UNCHANGED <<registry, fs, cache>>

ToggleSteps(w) ==
    \/ ToggleCommit(w)
    \/ ToggleScript(w)
    \/ \E ok \in BOOLEAN : ToggleRestart(w, ok)

(***************************************************************************)
(* InstanceService.get_instances_with_status                               *)
(***************************************************************************)
\* One process of the `pm2 jlist` output as get_all_status keeps it.  A
\* field is a set: {} is Python's None, {x} the value x.
StatusEntry(p) ==
    [status |-> pm2[p],
     pid |-> {IF pm2[p] = "online" THEN 1 ELSE 0},
     cpu |-> {IF pm2[p] = "online" THEN 1 ELSE 0},
     memory |-> {IF pm2[p] = "online" THEN 1 ELSE 0}]

\* PM2Service.get_all_status: the map by process name; empty when the run of
\* `pm2 jlist` failed or its output did not parse.
get_all_status(jlist_ok) ==
    IF jlist_ok
    THEN [p \in {q \in DOMAIN pm2 : pm2[q] # "absent"} |-> StatusEntry(p)]
    ELSE <<>>

\* The result keeping only the instances the supervisor lists.
ListOnlyMatched(jlist_ok) ==
    LET pm2_statuses == get_all_status(jlist_ok)
    IN  { [id |-> r.id, name |-> r.name, port |-> r.port, pm2_name |-> r.pm2_name,
           pm2_status |-> pm2_statuses[r.pm2_name].status,
           pid |-> pm2_statuses[r.pm2_name].pid,
           cpu |-> pm2_statuses[r.pm2_name].cpu,
           memory |-> pm2_statuses[r.pm2_name].memory]
          : r \in {x \in registry : x.pm2_name \in DOMAIN pm2_statuses} }

\* lines 507-520: one entry per instance; pm2_statuses.get(pm2_name, {}) and
\* the defaults of .get('status', 'stopped'), .get('pid'), .get('cpu', 0),
\* .get('memory', 0)
get_instances_with_status(jlist_ok) ==
    LET pm2_statuses == get_all_status(jlist_ok)
        has(r) == r.pm2_name \in DOMAIN pm2_statuses
    IN  { [id |-> r.id, name |-> r.name, port |-> r.port, pm2_name |-> r.pm2_name,
           pm2_status |-> IF has(r) THEN pm2_statuses[r.pm2_name].status ELSE "stopped",
           pid |-> IF has(r) THEN pm2_statuses[r.pm2_name].pid ELSE {},
           cpu |-> IF has(r) THEN pm2_statuses[r.pm2_name].cpu ELSE {0},
           memory |-> IF has(r) THEN pm2_statuses[r.pm2_name].memory ELSE {0}]
          : r \in registry }

\* A call of get_instances_with_status: the one run of `pm2 jlist` it makes
\* (line 508) and what it returns.
ListCall(w, jlist_ok) ==
    /\ Ready(w)
    /\ Set(w, [Idle EXCEPT !.op = "list", !.res = "ok", !.log = <<"jlist">>,
                           !.was = [jlist_ok |-> jlist_ok,
                                    entries |-> get_instances_with_status(jlist_ok)]])
    /\ UNCHANGED <<registry, fs, pm2, cache>>

(***************************************************************************)
(* A call of InstanceService.get_next_available_port                       *)
(***************************************************************************)
NextPortCall(w) ==
    /\ Ready(w)
    /\ Set(w, [Idle EXCEPT !.op = "nextport", !.res = "ok",
                           !.port = get_next_available_port])
    /\ UNCHANGED <<registry, fs, pm2, cache>>

(***************************************************************************)
(* A call of InstanceService.sanitize_name                                 *)
(***************************************************************************)
\* The static method has no raise: it returns the string it computed.
SanitizeCall(w, raw) ==
    /\ Ready(w)
    /\ Set(w, [Idle EXCEPT !.op = "sanitize", !.res = "ok", !.was = raw,
                           !.name = sanitize_name(raw)])
    /\ UNCHANGED <<registry, fs, pm2, cache>>

(***************************************************************************)
(* The admins of an instance: list_admins, add_admin, remove_admin         *)
(***************************************************************************)
\* The ids a _superusers table can hold; Installer is the row whose email is
\* __pbinstaller@example.com.
Installer == "installer"
AdminIds == {Installer, "u1", "u2"}

\* The rows of _superusers in a directory (none when there is no data.db).
Table(dir) == UNION dir.admins

\* list_admins (82-126): [] without data.db, else the rows but the installer's
list_admins(dir) == Table(dir) \ {Installer}

\* api.py 519-544 with add_admin (128-140) and create_superuser (42-80)
AddAdmin(w, id, admin_id) ==
    /\ Ready(w)
    /\ LET call == [Idle EXCEPT !.op = "add_admin", !.id = id]
           error(kind) == Set(w, [call EXCEPT !.res = "err", !.err = kind])
       IN  IF get_instance(id) = {}
           THEN UNCHANGED fs /\ error("not_found")
           ELSE LET d == (CHOOSE r \in get_instance(id) : TRUE).pb_path
                IN  IF ~fs[d].exists \/ fs[d].exe = NoFile
                    THEN UNCHANGED fs /\ error("no_executable")
                    ELSE \/ /\ fs' = [fs EXCEPT ![d].admins =
                                                   {Table(fs[d]) \cup {admin_id}}]
                            /\ Set(w, [call EXCEPT !.name = d, !.res = "ok"])
                         \/ UNCHANGED fs /\ error("superuser_failed")
    /\ UNCHANGED <<registry, pm2, cache>>

\* remove_admin without the count of lines 160-163
RemoveAdminNoCount(w, id, admin_id) ==
    /\ Ready(w)
    /\ LET call == [Idle EXCEPT !.op = "remove_admin", !.id = id]
           error(rec, kind) == Set(w, [rec EXCEPT !.res = "err", !.err = kind])
       IN  IF get_instance(id) = {}
           THEN UNCHANGED fs /\ error(call, "not_found")
           ELSE LET d == (CHOOSE r \in get_instance(id) : TRUE).pb_path
                    found == [call EXCEPT !.name = d]
                IN  IF fs[d].admins = {}
                    THEN UNCHANGED fs /\ error(found, "db_not_found")
                    ELSE IF admin_id \notin Table(fs[d])
                    THEN UNCHANGED fs /\ error(found, "admin_not_found")
                    ELSE \/ /\ fs' = [fs EXCEPT ![d].admins =
                                                   {Table(fs[d]) \ {admin_id}}]
                            /\ Set(w, [found EXCEPT !.res = "ok"])
                         \/ UNCHANGED fs /\ error(found, "remove_failed")
    /\ UNCHANGED <<registry, pm2, cache>>

\* api.py 546-564 with remove_admin (142-181): no data.db raises; fewer than
\* two listed admins raises; DELETE ... WHERE id = ? with rowcount 0 raises;
\* else commit, which may fail
RemoveAdmin(w, id, admin_id) ==
    /\ Ready(w)
    /\ LET call == [Idle EXCEPT !.op = "remove_admin", !.id = id]
           error(rec, kind) == Set(w, [rec EXCEPT !.res = "err", !.err = kind])
       IN  IF get_instance(id) = {}
           THEN UNCHANGED fs /\ error(call, "not_found")
           ELSE LET d == (CHOOSE r \in get_instance(id) : TRUE).pb_path
                    found == [call EXCEPT !.name = d]
                IN  IF fs[d].admins = {}
                    THEN UNCHANGED fs /\ error(found, "db_not_found")
                    ELSE IF Cardinality(list_admins(fs[d])) <= 1
                    THEN UNCHANGED fs /\ error(found, "last_admin")
                    ELSE IF admin_id \notin Table(fs[d])
                    THEN UNCHANGED fs /\ error(found, "admin_not_found")
                    ELSE \/ /\ fs' = [fs EXCEPT ![d].admins =
                                                   {Table(fs[d]) \ {admin_id}}]
                            /\ Set(w, [found EXCEPT !.res = "ok"])
                         \/ UNCHANGED fs /\ error(found, "remove_failed")
    /\ UNCHANGED <<registry, pm2, cache>>

(***************************************************************************)
(* routes/api.py: restart, and update_domain with                          *)
(* InstanceService.update_domain                                           *)
(***************************************************************************)
\* restart_instance (api.py 158-178)
RestartInstance(w, id) ==
    /\ Ready(w)
    /\ LET call == [Idle EXCEPT !.op = "restart", !.id = id]
           error(kind) == Set(w, [call EXCEPT !.res = "err", !.err = kind])
       IN  IF get_instance(id) = {}
           THEN UNCHANGED pm2 /\ error("not_found")
           ELSE LET instance == CHOOSE r \in get_instance(id) : TRUE
                IN  \/ /\ Pm2RestartOk(instance.pm2_name)
                       /\ Set(w, [call EXCEPT !.res = "ok"])
                    \/ Pm2Failed /\ error("restart_failed")
    /\ UNCHANGED <<registry, fs, cache>>

\* The domains a request gives: none (JSON null or no key), the empty
\* string, a name.
DomainInputs == {None, "", "example.org"}

\* The domain stored as it was given.
NormalizeDomainIdentity(domain) == domain

\* api.py 291-293: if domain == '': domain = None
NormalizeDomain(domain) == IF domain = "" THEN None ELSE domain

SetDomain(id, domain) ==
    {IF r.id = id THEN [r EXCEPT !.domain = domain] ELSE r : r \in registry}

\* update_domain without the test of lines 252-254
UpdateDomainNoGet(w, id, domain) ==
    /\ Ready(w)
    /\ LET call == [Idle EXCEPT !.op = "domain", !.id = id, !.was = domain]
       IN  \/ /\ registry' = SetDomain(id, NormalizeDomain(domain))
              /\ Set(w, [call EXCEPT !.res = "ok"])
           \/ /\ UNCHANGED registry
              /\ Set(w, [call EXCEPT !.res = "err", !.err = "domain_failed",
                                     !.at = "o_commit"])
    /\ UNCHANGED <<fs, pm2, cache>>

\* api.py 284-301 and update_domain (242-266): get_instance, then
\* instance.domain = domain; commit, which may fail and is then rolled back
UpdateDomain(w, id, domain) ==
    /\ Ready(w)
    /\ LET call == [Idle EXCEPT !.op = "domain", !.id = id, !.was = domain]
       IN  IF get_instance(id) = {}
           THEN /\ UNCHANGED registry
                /\ Set(w, [call EXCEPT !.res = "err", !.err = "not_found",
                                       !.at = "o_get"])
           ELSE \/ /\ registry' = SetDomain(id, NormalizeDomain(domain))
                   /\ Set(w, [call EXCEPT !.res = "ok"])
                \/ /\ UNCHANGED registry
                   /\ Set(w, [call EXCEPT !.res = "err", !.err = "domain_failed",
                                          !.at = "o_commit"])
    /\ UNCHANGED <<fs, pm2, cache>>

(***************************************************************************)
(* routes/api.py: POST /instances                                          *)
(***************************************************************************)
\* The port of the request body as text: "" when absent, else what int()
\* is given.  int() of "abc" raises ValueError.
PortTexts == {"", "abc", "7200"}
IntOf(text) == CASE text = "7200" -> 7200 [] OTHER -> 0
IsInt(text) == text \in {"7200"}

\* api.py 37-64: name and version are required (a missing or empty one is
\* refused with 400), a port that is given goes through int(), and
\* create_instance is called with what is left.  The empty sequence is a
\* missing or empty name, "" a missing or empty version.
CreateRequest(w, name, version, port) ==
    LET refused(step) ==
            /\ Ready(w)
            /\ Set(w, [Idle EXCEPT !.op = "create", !.res = "err",
                                   !.err = "validation", !.at = step])
            /\ UNCHANGED <<registry, fs, pm2, cache>>
    IN  IF name = <<>> \/ version = ""
        THEN refused("r_required")
        ELSE IF port # "" /\ ~IsInt(port)
        THEN refused("r_port")
        ELSE CreateCall(w, name, version,
                        IF port = "" THEN {} ELSE {IntOf(port)}, FALSE, FALSE)

(***************************************************************************)
(* DownloadService.download_version, step by step                          *)
(***************************************************************************)
\* lines 46-68: the executable of the version is in the cache: return its
\* path at once; otherwise go on to the release lookup
DownloadCall(w, v) ==
    /\ Ready(w)
    /\ Set(w, [Idle EXCEPT !.op = "download", !.version = v,
                           !.pc = IF v \in cache THEN "done" ELSE "dl_url",
                           !.res = IF v \in cache THEN "ok" ELSE "none"])
    /\ UNCHANGED <<registry, fs, pm2, cache>>

\* lines 70-73: the release lookup; without a URL the call raises, outside
\* the try block
DownloadUrl(w) ==
    /\ wk[w].pc = "dl_url"
    /\ \/ Set(w, [wk[w] EXCEPT !.pc = "dl_fetch", !.log = <<"lookup">>])
       \/ Set(w, [wk[w] EXCEPT !.pc = "done", !.res = "err", !.err = "no_url",
                               !.at = "dl_url", !.log = <<"lookup">>])
    /\ UNCHANGED <<registry, fs, pm2, cache>>

\* lines 75-108: the version directory is made, the archive fetched into it
\* and extracted; on any failure the handler removes the version directory,
\* whatever it holds
DownloadFetch(w) ==
    /\ wk[w].pc = "dl_fetch"
    /\ \/ /\ cache' = cache \cup {wk[w].version}
          /\ Set(w, [wk[w] EXCEPT !.pc = "done", !.res = "ok",
                                  !.log = <<"lookup", "fetch">>])
       \/ /\ cache' = cache \ {wk[w].version}
          /\ Set(w, [wk[w] EXCEPT !.pc = "done", !.res = "err",
                                  !.err = "download_failed", !.at = "dl_fetch",
                                  !.log = <<"lookup", "fetch">>])
    /\ UNCHANGED <<registry, fs, pm2>>

(***************************************************************************)
(* PM2Service._run_command and InstanceService.create_superuser            *)
(***************************************************************************)
Commands == {"start", "stop", "restart", "delete", "jlist", "logs", "superuser"}
\* How subprocess.run ends: the exit code of the command, the expiry of
\* its timeout of 30 seconds, or an error of the operating system.
ExitCodes == {0, 1}

\* success as the timeout were an exit with code zero
RunCommandTimeoutOk(outcome) == outcome \in {<<"exit", 0>>, <<"timeout">>}

\* pm2_service.py 24 and instance_service.py 70: success is returncode == 0;
\* the handlers of lines 25-28 and 77-80 report a failure
run_command(outcome) == outcome = <<"exit", 0>>

CommandResult(outcome) == IF run_command(outcome) THEN "ok" ELSE "err"

\* subprocess.run is entered; the command cannot be spawned (OSError, or
\* the executable of create_superuser is missing) or it runs
CommandStart(w, cmd) ==
    /\ Ready(w)
    /\ \/ Set(w, [Idle EXCEPT !.op = "command", !.at = cmd, !.pc = "running"])
       \/ Set(w, [Idle EXCEPT !.op = "command", !.at = cmd,
                              !.log = <<"oserror">>,
                              !.res = CommandResult(<<"oserror">>)])
    /\ UNCHANGED <<registry, fs, pm2, cache>>

\* the command exits before the timeout
CommandExit(w, code) ==
    /\ wk[w].pc = "running"
    /\ Set(w, [wk[w] EXCEPT !.pc = "done", !.log = <<"exit", code>>,
                            !.res = CommandResult(<<"exit", code>>)])
    /\ UNCHANGED <<registry, fs, pm2, cache>>

\* the timeout expires: subprocess.run kills the command and raises
\* TimeoutExpired
CommandTimeout(w) ==
    /\ wk[w].pc = "running"
    /\ Set(w, [wk[w] EXCEPT !.pc = "done", !.log = <<"timeout">>,
                            !.res = CommandResult(<<"timeout">>)])
    /\ UNCHANGED <<registry, fs, pm2, cache>>

CommandEnds(w) == (\E code \in ExitCodes : CommandExit(w, code)) \/ CommandTimeout(w)

(***************************************************************************)
(* A call of InstanceService.regenerate_run_script                         *)
(***************************************************************************)
\* lines 424-463 for the row with the id: open(run_script_path, 'w') and
\* write, then os.chmod; the method has no handler, a failure leaves it.
RegenerateScript(w, id) ==
    /\ Ready(w)
    /\ get_instance(id) # {}
    /\ LET instance == CHOOSE r \in get_instance(id) : TRUE
           d == instance.pb_path
           call == [Idle EXCEPT !.op = "regenerate", !.id = id, !.name = d]
           written == [fs EXCEPT ![d].script = {RegeneratedScript(instance)}]
       IN  \/ fs[d].exists /\ fs' = written /\ Set(w, [call EXCEPT !.res = "ok"])
           \/ /\ UNCHANGED fs
              /\ Set(w, [call EXCEPT !.res = "err", !.err = "regenerate_failed",
                                     !.at = "g_open"])
           \/ /\ fs[d].exists /\ fs' = written
              /\ Set(w, [call EXCEPT !.res = "err", !.err = "regenerate_failed",
                                     !.at = "g_chmod"])
    /\ UNCHANGED <<registry, pm2, cache>>

(***************************************************************************)
(* FileManagerService                                                      *)
(***************************************************************************)
\* A path is the sequence of its components: "a/../b" is <<"a", "..", "b">>,
\* a slash at the front or a doubled slash gives an empty component, so
\* "/run.sh" is <<"", "run.sh">>, "/" is <<"", "">> and "" is <<>>.
\* INSTANCES_DIR is <<"inst">>, the directory of instance "a" <<"inst", "a">>.
InstancesDir == <<"inst">>

\* str.lstrip('/')
RECURSIVE LStripSlash(_)
LStripSlash(p) == IF p # <<>> /\ p[1] = "" THEN LStripSlash(Tail(p)) ELSE p

\* Path.resolve() of base / p on a tree without symbolic links: empty
\* components and "." are dropped, ".." leaves a directory, and the root is
\* its own parent.
RECURSIVE Resolve(_, _)
Resolve(base, p) ==
    IF p = <<>> THEN base
    ELSE IF p[1] \in {"", "."} THEN Resolve(base, Tail(p))
    ELSE IF p[1] = ".."
    THEN Resolve(IF base = <<>> THEN <<>> ELSE SubSeq(base, 1, Len(base) - 1), Tail(p))
    ELSE Resolve(Append(base, p[1]), Tail(p))

\* _validate_path without the relative_to test
ValidatePathNoContainment(root, relative_path) ==
    IF relative_path = <<>> THEN [ok |-> TRUE, path |-> root]
    ELSE [ok |-> TRUE, path |-> Resolve(root, LStripSlash(relative_path))]

\* lines 30-56; ok = FALSE is the ValueError, raised when
\* full_path.relative_to(instance_path) raises
validate_path(root, relative_path) ==
    IF relative_path = <<>> THEN [ok |-> TRUE, path |-> root]
    ELSE LET full_path == Resolve(root, LStripSlash(relative_path))
         IN  [ok |-> /\ Len(full_path) >= Len(root)
                     /\ SubSeq(full_path, 1, Len(root)) = root,
              path |-> full_path]

\* The files of an instance directory that the disk of the model holds.
IsItem(p) ==
    /\ Len(p) = 3 /\ p[1] = "inst" /\ <<p[2]>> \in DOMAIN fs
    /\ p[3] \in {"run.sh", "pocketbase", "pocketbase.backup"}
\* Path.exists()
PathExists(p) ==
    \/ p = <<>> \/ p = InstancesDir
    \/ Len(p) = 2 /\ p[1] = "inst" /\ <<p[2]>> \in DOMAIN fs /\ fs[<<p[2]>>].exists
    \/ /\ IsItem(p) /\ fs[<<p[2]>>].exists
       /\ CASE p[3] = "run.sh" -> fs[<<p[2]>>].script # {}
            [] p[3] = "pocketbase" -> fs[<<p[2]>>].exe # NoFile
            [] OTHER -> fs[<<p[2]>>].backup # NoFile
\* Path.is_dir()
IsDirPath(p) == PathExists(p) /\ Len(p) <= 2

\* Path.unlink() of a file
Unlinked(p) ==
    CASE p[3] = "run.sh" -> [fs EXCEPT ![<<p[2]>>].script = {}]
      [] p[3] = "pocketbase" -> [fs EXCEPT ![<<p[2]>>].exe = NoFile]
      [] OTHER -> [fs EXCEPT ![<<p[2]>>].backup = NoFile]
\* The executable or backup file at p, and the disk with it written to p.
ExeAt(disk, p) ==
    IF p[3] = "pocketbase" THEN disk[<<p[2]>>].exe ELSE disk[<<p[2]>>].backup
ExeWritten(disk, p, content) ==
    IF p[3] = "pocketbase" THEN [disk EXCEPT ![<<p[2]>>].exe = content]
    ELSE [disk EXCEPT ![<<p[2]>>].backup = content]

\* What every file route does first (api.py 306-318): the row, then
\* FileManagerService(instance.pb_path), which needs the directory.
\* The record of the request keeps the paths it was given and, in targets,
\* the locations it read, wrote or removed.
FmCall(op, id, source_path, dest_path) ==
    [Idle EXCEPT !.op = op, !.id = id,
                 !.was = [source_path |-> source_path, dest_path |-> dest_path,
                          targets |-> {}]]
FmRefused(w, call, kind) ==
    /\ Set(w, [call EXCEPT !.res = "err", !.err = kind])
    /\ UNCHANGED fs
FmDone(w, call, targets) ==
    Set(w, [call EXCEPT !.res = "ok", !.was.targets = targets])
FmOpens(id) ==
    /\ get_instance(id) # {}
    /\ DirExists((CHOOSE r \in get_instance(id) : TRUE).pb_path)
FmRoot(id) == InstancesDir \o (CHOOSE r \in get_instance(id) : TRUE).pb_path
FmClosed(w, call, id) ==
    FmRefused(w, call, IF get_instance(id) = {} THEN "not_found" ELSE "no_instance_path")

\* list_directory (71-121)
ListDirectory(w, id, path) ==
    /\ Ready(w)
    /\ LET call == FmCall("fm_list", id, path, <<>>)
       IN  IF ~FmOpens(id) THEN FmClosed(w, call, id)
           ELSE LET full_path == validate_path(FmRoot(id), path)
                IN  IF ~full_path.ok THEN FmRefused(w, call, "traversal")
                    ELSE IF ~PathExists(full_path.path) THEN FmRefused(w, call, "not_exist")
                    ELSE IF ~IsDirPath(full_path.path) THEN FmRefused(w, call, "not_a_directory")
                    ELSE UNCHANGED fs /\ FmDone(w, call, {full_path.path})
    /\ UNCHANGED <<registry, pm2, cache>>

\* get_file_path (330-348), the download
GetFilePath(w, id, path) ==
    /\ Ready(w)
    /\ LET call == FmCall("fm_download", id, path, <<>>)
       IN  IF ~FmOpens(id) THEN FmClosed(w, call, id)
           ELSE LET full_path == validate_path(FmRoot(id), path)
                IN  IF ~full_path.ok THEN FmRefused(w, call, "traversal")
                    ELSE IF ~PathExists(full_path.path) THEN FmRefused(w, call, "not_exist")
                    ELSE IF IsDirPath(full_path.path) THEN FmRefused(w, call, "not_a_file")
                    ELSE UNCHANGED fs /\ FmDone(w, call, {full_path.path})
    /\ UNCHANGED <<registry, pm2, cache>>

\* delete_item (160-199): the only directory of the model inside an
\* instance directory is its root, so what is removed is a file
DeleteItem(w, id, path) ==
    /\ Ready(w)
    /\ LET call == FmCall("fm_delete", id, path, <<>>)
       IN  IF ~FmOpens(id) THEN FmClosed(w, call, id)
           ELSE LET full_path == validate_path(FmRoot(id), path)
                IN  IF ~full_path.ok THEN FmRefused(w, call, "traversal")
                    ELSE IF ~PathExists(full_path.path) THEN FmRefused(w, call, "not_exist")
                    ELSE IF full_path.path = FmRoot(id) THEN FmRefused(w, call, "root")
                    ELSE \/ /\ fs' = Unlinked(full_path.path)
                            /\ FmDone(w, call, {full_path.path})
                         \/ FmRefused(w, call, "failed")
    /\ UNCHANGED <<registry, pm2, cache>>

\* copy_item (201-239) of a file: shutil.copy2
CopyItem(w, id, source_path, dest_path) ==
    /\ Ready(w)
    /\ LET call == FmCall("fm_copy", id, source_path, dest_path)
       IN  IF ~FmOpens(id) THEN FmClosed(w, call, id)
           ELSE LET source == validate_path(FmRoot(id), source_path)
                    dest == validate_path(FmRoot(id), dest_path)
                IN  IF ~source.ok \/ ~dest.ok THEN FmRefused(w, call, "traversal")
                    ELSE IF ~PathExists(source.path) THEN FmRefused(w, call, "not_exist")
                    ELSE IF PathExists(dest.path) THEN FmRefused(w, call, "dest_exists")
                    ELSE \/ /\ fs' = ExeWritten(fs, dest.path, ExeAt(fs, source.path))
                            /\ FmDone(w, call, {source.path, dest.path})
                         \/ FmRefused(w, call, "failed")
    /\ UNCHANGED <<registry, pm2, cache>>

\* move_item (241-278)
MoveItem(w, id, source_path, dest_path) ==
    /\ Ready(w)
    /\ LET call == FmCall("fm_move", id, source_path, dest_path)
       IN  IF ~FmOpens(id) THEN FmClosed(w, call, id)
           ELSE LET source == validate_path(FmRoot(id), source_path)
                    dest == validate_path(FmRoot(id), dest_path)
                IN  IF ~source.ok \/ ~dest.ok THEN FmRefused(w, call, "traversal")
                    ELSE IF ~PathExists(source.path) THEN FmRefused(w, call, "not_exist")
                    ELSE IF PathExists(dest.path) THEN FmRefused(w, call, "dest_exists")
                    ELSE IF source.path = FmRoot(id) THEN FmRefused(w, call, "root")
                    ELSE \/ /\ fs' = ExeWritten(Unlinked(source.path), dest.path,
                                                ExeAt(fs, source.path))
                            /\ FmDone(w, call, {source.path, dest.path})
                         \/ FmRefused(w, call, "failed")
    /\ UNCHANGED <<registry, pm2, cache>>

(***************************************************************************)
(* Specifications.  Each runs the handlers a group of properties is about, *)
(* over inputs small enough to explore in full.                            *)
(***************************************************************************)
\* Requests served one at a time: create, start, stop, delete.
Next ==
    \/ \E raw \in RawNames, p \in PortInputs : CreateCheckName(1, raw, "v1", p, FALSE)
    \/ CreateSteps(1)
    \/ \E id \in IdInputs, rf \in BOOLEAN, ok \in BOOLEAN : DeleteCall(1, id, rf, ok)
    \/ DeleteSteps(1)
    \/ \E id \in IdInputs : StartInstance(1, id)
    \/ \E id \in IdInputs : StopInstance(1, id)

Spec == Init /\ [][Next]_vars

\* Requests served one at a time: create, start, stop, update_version.
NextUpdate ==
    \/ \E v \in Versions : CreateCheckName(1, <<"a">>, v, {}, FALSE)
    \/ CreateSteps(1)
    \/ \E id \in IdInputs, v \in Versions, ok \in BOOLEAN : UpdateCall(1, id, v, ok)
    \/ UpdateSteps(1)
    \/ \E id \in IdInputs : StartInstance(1, id)
    \/ \E id \in IdInputs : StopInstance(1, id)

SpecUpdate == Init /\ [][NextUpdate]_vars

\* Two request threads, each running create calls one after another.
RaceNames == { <<"a">>, <<"A", "!">>, <<"b">> }
RacePorts == { {}, {DEFAULT_PORT_START} }

NextRace ==
    \E w \in Workers :
        \/ \E raw \in RaceNames, p \in RacePorts :
              CreateCheckName(w, raw, "v1", p, FALSE)
        \/ CreateSteps(w)

SpecRace == Init /\ [][NextRace]_vars

\* Two request threads running create calls, each thread for a name of its own.
NextPorts ==
    \/ \E p \in RacePorts : CreateCheckName(1, <<"a">>, "v1", p, FALSE)
    \/ \E p \in RacePorts : CreateCheckName(2, <<"b">>, "v1", p, FALSE)
    \/ \E w \in Workers : CreateSteps(w)

SpecPorts == Init /\ [][NextPorts]_vars

\* Two request threads running create calls, the first also delete calls.
\* Nothing is started, so delete finds no process to stop.
NextConc ==
    \/ NextRace
    \/ \E id \in IdInputs : DeleteCall(1, id, TRUE, TRUE)
    \/ DeletePm2(1)
    \/ DeleteFiles(1)
    \/ DeleteCommit(1)

SpecConc == Init /\ [][NextConc]_vars

\* Requests served one at a time: create, start, stop, toggle_dev_mode.
NextToggle ==
    \/ \E dm \in BOOLEAN : CreateCheckName(1, <<"a">>, "v1", {}, dm)
    \/ CreateSteps(1)
    \/ \E id \in IdInputs : ToggleCall(1, id)
    \/ ToggleSteps(1)
    \/ \E id \in IdInputs : StartInstance(1, id)
    \/ \E id \in IdInputs : StopInstance(1, id)

SpecToggle == Init /\ [][NextToggle]_vars

\* Requests served one at a time: create, start, stop, the list with status.
ListNames == { <<"a">>, <<"b">> }

NextList ==
    \/ \E raw \in ListNames : CreateCheckName(1, raw, "v1", {}, FALSE)
    \/ CreateSteps(1)
    \/ \E id \in IdInputs : StartInstance(1, id)
    \/ \E id \in IdInputs : StopInstance(1, id)
    \/ \E ok \in BOOLEAN : ListCall(1, ok)

SpecList == Init /\ [][NextList]_vars

\* The port allocator asked about registries of up to two instances, "a"
\* and "b", created with caller-supplied ports of PortRange, and asked again
\* after deletes.
PortRange == (DEFAULT_PORT_START - PortsBelow)..(DEFAULT_PORT_START + PortsAbove)

\* The instance create leaves behind for a name and a port (lines 309-377).
CreatedRow(id, name, port) ==
    [id |-> id, name |-> name, version |-> "v1", port |-> port,
     pm2_name |-> Pm2Name(name), pb_path |-> name, dev_mode |-> FALSE,
     domain |-> None]
CreatedDir(name, port) ==
    [exists |-> TRUE, script |-> {RunScript(name, "v1", port, FALSE, name)},
     exe |-> "v1", backup |-> NoFile, admins |-> {}]

InitPorts ==
    /\ \E A, B \in SUBSET PortRange :
          /\ Cardinality(A) <= 1 /\ Cardinality(B) <= 1 /\ A \cap B = {}
          /\ A = {} => B = {}
          /\ registry = {CreatedRow(1, <<"a">>, p) : p \in A}
                        \cup {CreatedRow(2, <<"b">>, p) : p \in B}
          /\ fs = [d \in DirNames \ {<<>>} |->
                     IF d = <<"a">> /\ A # {}
                     THEN CreatedDir(d, CHOOSE p \in A : TRUE)
                     ELSE IF d = <<"b">> /\ B # {}
                     THEN CreatedDir(d, CHOOSE p \in B : TRUE)
                     ELSE NoDir]
    /\ pm2 = [p \in {Pm2Name(d) : d \in DirNames} |-> "absent"]
    /\ cache = {"v1"}
    /\ wk = [w \in Workers |-> Idle]

NextNextPort ==
    \/ NextPortCall(1)
    \/ \E id \in IdInputs : DeleteCall(1, id, TRUE, TRUE)
    \/ DeletePm2(1)
    \/ DeleteFiles(1)
    \/ DeleteCommit(1)

SpecNextPort == InitPorts /\ [][NextNextPort]_vars

\* sanitize_name called on every raw name of SanitizeInputs.
NextSanitize == \E raw \in SanitizeInputs : SanitizeCall(1, raw)

SpecSanitize == Init /\ [][NextSanitize]_vars

\* Requests served one at a time: create with or without admin credentials,
\* add and remove admins.
NextAdmin ==
    \/ \E admin \in BOOLEAN : CreateCall(1, <<"a">>, "v1", {}, FALSE, admin)
    \/ CreateSteps(1)
    \/ CreateSuperuser(1)
    \/ \E id \in IdInputs, a \in AdminIds : AddAdmin(1, id, a)
    \/ \E id \in IdInputs, a \in AdminIds : RemoveAdmin(1, id, a)

SpecAdmin == Init /\ [][NextAdmin]_vars

\* Requests served one at a time over the whole life of an instance: create,
\* update_version, toggle_dev_mode, update_domain, start, stop, restart and
\* delete with remove_files, whose rmtree and commit succeed.
NextLife ==
    \/ CreateCheckName(1, <<"a">>, "v1", {}, FALSE)
    \/ CreateSteps(1)
    \/ \E id \in IdInputs, ok \in BOOLEAN : UpdateCall(1, id, "v2", ok)
    \/ UpdateSteps(1)
    \/ \E id \in IdInputs : ToggleCall(1, id)
    \/ ToggleSteps(1)
    \/ \E id \in IdInputs, d \in DomainInputs : UpdateDomain(1, id, d)
    \/ \E id \in IdInputs, ok \in BOOLEAN : DeleteCall(1, id, TRUE, ok)
    \/ DeleteSteps(1) /\ wk'[1].res # "err"
    \/ \E id \in IdInputs : StartInstance(1, id)
    \/ \E id \in IdInputs : StopInstance(1, id)
    \/ \E id \in IdInputs : RestartInstance(1, id)

SpecLife == Init /\ [][NextLife]_vars

\* Requests served one at a time: creates of two instances, update_domain.
NextDomain ==
    \/ \E raw \in ListNames : CreateCheckName(1, raw, "v1", {}, FALSE)
    \/ CreateSteps(1)
    \/ \E id \in IdInputs, d \in DomainInputs : UpdateDomain(1, id, d)

SpecDomain == Init /\ [][NextDomain]_vars

\* Create requests served one at a time, with names, versions and ports
\* that are missing, malformed or well-formed.
RequestNames == { <<>>, <<"a">>, <<"b">>, <<"_", "_", "_">> }

NextValidate ==
    \/ \E name \in RequestNames, version \in {""} \cup Versions,
             port \in PortTexts :
          CreateRequest(1, name, version, port)
    \/ CreateSteps(1)

SpecValidate == Init /\ [][NextValidate]_vars

\* Concurrent calls of download_version.
NextDownload ==
    \E w \in Workers :
        \/ \E v \in Versions : DownloadCall(w, v)
        \/ DownloadUrl(w)
        \/ DownloadFetch(w)

SpecDownload == Init /\ [][NextDownload]_vars

\* Supervisor and superuser commands, run by concurrent requests.
NextCommand ==
    \E w \in Workers :
        \/ \E cmd \in Commands : CommandStart(w, cmd)
        \/ \E code \in ExitCodes : CommandExit(w, code)
        \/ CommandTimeout(w)

SpecCommand == Init /\ [][NextCommand]_vars

\* subprocess.run(..., timeout=30) returns or raises: a command that runs
\* exits or is killed when its timeout expires.
SpecCommandFair == SpecCommand /\ \A w \in Workers : WF_vars(CommandEnds(w))

\* Creates with an allocated port by worker 1, who also asks the allocator,
\* and deletes by worker 2.
NextAlloc ==
    \/ \E raw \in ListNames : CreateCheckName(1, raw, "v1", {}, FALSE)
    \/ CreateSteps(1)
    \/ NextPortCall(1)
    \/ \E id \in IdInputs : DeleteCall(2, id, TRUE, TRUE)
    \/ DeletePm2(2)
    \/ DeleteFiles(2)
    \/ DeleteCommit(2)
    \/ NextPortCall(2)

SpecAlloc == Init /\ [][NextAlloc]_vars

\* Requests served one at a time whose `pm2 jlist` query succeeds or fails:
\* the list with status, update_version, delete; with create, start, stop.
NextStatus ==
    \/ CreateCheckName(1, <<"a">>, "v1", {}, FALSE)
    \/ CreateSteps(1)
    \/ \E id \in IdInputs : StartInstance(1, id)
    \/ \E id \in IdInputs : StopInstance(1, id)
    \/ \E ok \in BOOLEAN : ListCall(1, ok)
    \/ \E id \in IdInputs, ok \in BOOLEAN : UpdateCall(1, id, "v2", ok)
    \/ UpdateSteps(1)
    \/ \E id \in IdInputs, ok \in BOOLEAN : DeleteCall(1, id, TRUE, ok)
    \/ DeleteSteps(1)

SpecStatus == Init /\ [][NextStatus]_vars

\* Requests served one at a time: creates with every name, version, port and
\* dev_mode of the inputs, and regenerate_run_script on what they made.
NextScript ==
    \/ \E raw \in ListNames, v \in Versions, p \in RacePorts, dm \in BOOLEAN :
          CreateCheckName(1, raw, v, p, dm)
    \/ CreateSteps(1)
    \/ \E id \in IdInputs : RegenerateScript(1, id)

SpecScript == Init /\ [][NextScript]_vars

\* Requests served one at a time: creates of "a" and "b", and the file
\* manager of either asked to list, download, delete, copy and move.  The
\* paths: the root in its spellings, files of the instance, of the other
\* instance, and paths that leave the directory and come back.
NextFiles ==
    \/ \E raw \in ListNames : CreateCheckName(1, raw, "v1", {}, FALSE)
    \/ CreateSteps(1)
    \/ \E id \in IdInputs, path \in { <<>>, <<".">>, <<"..">>, <<"pocketbase">> } :
          ListDirectory(1, id, path)
    \/ \E id \in IdInputs,
           path \in { <<"", "run.sh">>, <<"..", "a", "pocketbase">>,
                      <<"..", "b", "pocketbase">> } :
          GetFilePath(1, id, path)
    \/ \E id \in IdInputs,
           path \in { <<"", "">>, <<"pocketbase">>, <<"..", "a", "pocketbase">>,
                      <<"..", "b", "pocketbase">>, <<"..", "..", "etc">> } :
          DeleteItem(1, id, path)
    \/ \E id \in IdInputs,
           s \in { <<"pocketbase">>, <<"..", "b", "pocketbase">> },
           d \in { <<"", "pocketbase.backup">>, <<"..", "b", "pocketbase.backup">> } :
          CopyItem(1, id, s, d)
    \/ \E id \in IdInputs,
           s \in { <<"pocketbase.backup">>, <<".">>, <<"..", "b", "pocketbase">> },
           d \in { <<"pocketbase">>, <<"..", "b", "pocketbase.backup">> } :
          MoveItem(1, id, s, d)

SpecFiles == Init /\ [][NextFiles]_vars

(***************************************************************************)
(* Properties                                                              *)
(***************************************************************************)
Done(w, op) == wk[w].op = op /\ wk[w].pc = "done"
\* The step is worker w's, and begins a request op.
Calls(w, op) == wk[w].pc = "done" /\ wk'[w] # wk[w] /\ wk'[w].op = op

RowOf(w) == {r \in registry : r.id = wk[w].id /\ r.name = wk[w].name}
\* The instance a create made is whole: its row, directory, script, executable.
Intact(w) ==
    /\ RowOf(w) # {}
    /\ fs[wk[w].name].exists
    /\ fs[wk[w].name].script # {}
    /\ fs[wk[w].name].exe = wk[w].version

\* C1: in every state reached by create calls (with or without a port,
\* concurrent, failing) interleaved with delete calls, no two registry rows
\* share a name, a port or a pm2_name.
C1_RegistryUnique ==
    \A r1, r2 \in registry :
        r1 # r2 => /\ r1.name # r2.name
                   /\ r1.port # r2.port
                   /\ r1.pm2_name # r2.pm2_name

\* Two rows are registered and the database has refused a third, conflicting one.
C1_Witness ==
    /\ Cardinality(registry) = 2
    /\ \E w \in Workers : Done(w, "create") /\ wk[w].at = "c_integrity"

\* C2: of two creates of the same sanitized name at most one succeeds, the
\* other fails, and when both have returned the winner's row, directory,
\* launch script and executable are all in place.
C2_WinnerIntact ==
    \A w1, w2 \in Workers :
        (/\ w1 # w2
         /\ Done(w1, "create") /\ Done(w2, "create")
         /\ wk[w1].name = wk[w2].name
         /\ wk[w1].res = "ok")
        => wk[w2].res = "err" /\ Intact(w1)

\* C3: two creates of different names that took the same port from the
\* allocator and both reached the insert: exactly one insert succeeds, the
\* loser fails and leaves no row and no directory, the winner is whole.
Raced(w1, w2) ==
    /\ Done(w1, "create") /\ Done(w2, "create")
    /\ wk[w1].name # wk[w2].name
    /\ wk[w1].port_arg = {} /\ wk[w2].port_arg = {}
    /\ wk[w1].port = wk[w2].port /\ wk[w1].port # 0
    /\ {wk[w1].at, wk[w2].at} \subseteq {"none", "c_integrity"}
    /\ wk[w1].res # "none" /\ wk[w2].res # "none"

CreateTrySteps ==
    {"c_mkdir", "c_script", "c_chmod", "c_copy", "c_chmodexe", "c_commit", "c_integrity"}

C4_Step(w) ==
    LET n == wk'[w].name
    IN  /\ \A d \in DOMAIN fs : d # n => fs'[d] = fs[d]
        /\ {r \in registry' : r.name # n} = {r \in registry : r.name # n}
        /\ (wk'[w].pc = "done" /\ wk'[w].res = "err" /\ wk'[w].at \in CreateTrySteps)
           => /\ ~\E r \in registry' : r.name = n
              /\ ~fs'[n].exists

C5_DuplicateNameRejected ==
    [][\A w \in Workers :
         (Calls(w, "create") /\ \E r \in registry : r.name = wk'[w].name)
         => /\ wk'[w].pc = "done"
            /\ wk'[w].res = "err"
            /\ wk'[w].err = "name_exists"
            /\ UNCHANGED <<registry, fs, pm2, cache>>]_vars

C5_Witness ==
    /\ Done(1, "create") /\ wk[1].err = "name_exists"
    /\ \E r \in registry : r.name = wk[1].name /\ fs[r.pb_path].exists

\* C6: an update_version that fails at the copy, the permission fix or the
\* commit after the backup was taken returns with the executable and the
\* registry version as they were; one that succeeds returns with the new
\* executable, the new registry version and no backup file.
UpdateRow(w) == CHOOSE r \in get_instance(wk[w].id) : TRUE

C7_VersionMatchesExecutable ==
    \A w \in Workers :
        (/\ Done(w, "update")
         /\ wk[w].at \in {"none", "u_dl", "u_copy", "u_chmod", "u_commit", "u_unlink"}
         /\ get_instance(wk[w].id) # {})
        => \/ /\ UpdateRow(w).version = wk[w].was.version
              /\ fs[wk[w].name].exe = wk[w].was.exe
           \/ /\ UpdateRow(w).version = wk[w].version
              /\ fs[wk[w].name].exe = wk[w].version

\* C8: update_version on an instance the supervisor reports online fails
\* with the precondition error in its first step and changes nothing.
C8_RunningInstanceRejected ==
    [][\A w \in Workers :
         (Calls(w, "update") /\ wk'[w].err # "not_found" /\ wk'[w].was.running)
         => /\ wk'[w].pc = "done"
            /\ wk'[w].res = "err"
            /\ wk'[w].err = "must_stop"
            /\ UNCHANGED <<registry, fs, pm2, cache>>]_vars

C8_Witness ==
    \E w \in Workers :
        /\ Done(w, "update") /\ wk[w].err = "must_stop"
        /\ wk[w].version # wk[w].was.version
        /\ pm2[Pm2Name(wk[w].name)] = "online"

\* C9: delete runs stop (only when the process is reported running), the
\* supervisor deletion, the directory removal (when asked) and the row
\* removal in that order; while a delete is under way or has failed, an
\* instance directory that exists still has its registry row.
DeleteLog(w) ==
    (IF wk[w].was.running THEN <<"stop">> ELSE <<>>)
    \o <<"pm2_delete">>
    \o (IF wk[w].remove_files /\ wk[w].was.dir THEN <<"rmtree">> ELSE <<>>)
    \o <<"db_delete">>

IsPrefix(s, t) == Len(s) <= Len(t) /\ s = SubSeq(t, 1, Len(s))

C9_DeleteOrder ==
    \A w \in Workers :
        wk[w].op = "delete" /\ wk[w].err # "not_found" =>
            /\ IsPrefix(wk[w].log, DeleteLog(w))
            /\ wk[w].res = "ok" => wk[w].log = DeleteLog(w)
            /\ (wk[w].res # "ok" /\ DirExists(wk[w].name))
               => get_instance(wk[w].id) # {}

\* The delete of a running instance failed at the row removal, after the
\* stop, the supervisor deletion and the directory removal.
C9_Witness ==
    \E w \in Workers :
        /\ Done(w, "delete") /\ wk[w].res = "err" /\ wk[w].at = "d_commit"
        /\ wk[w].log = <<"stop", "pm2_delete", "rmtree">>

\* C10: a delete with remove_files of an instance whose directory is gone
\* fails at no step but the commit of the row removal, and when it succeeds
\* the row is removed; a delete of an instance whose supervisor entry is
\* absent does not fail at the stop or at the supervisor deletion.
C10_DeleteWithoutDirectory ==
    \A w \in Workers :
        Done(w, "delete") /\ wk[w].err # "not_found" =>
            /\ (wk[w].remove_files /\ ~wk[w].was.dir)
               => /\ wk[w].res = "err" => wk[w].at = "d_commit"
                  /\ wk[w].res = "ok" => get_instance(wk[w].id) = {}
            /\ wk[w].was.pm2 = "absent" => wk[w].at \notin {"d_stop", "d_pm2del"}

C10_Witness ==
    \E w \in Workers :
        /\ Done(w, "delete") /\ wk[w].res = "ok"
        /\ wk[w].remove_files /\ ~wk[w].was.dir /\ wk[w].was.pm2 = "absent"

\* C11: when a delete with remove_files returns success, the supervisor holds
\* no entry under the instance's process name, the instance directory does
\* not exist and the registry has no row for the instance.
C11_DeleteRemovesAll ==
    \A w \in Workers :
        (Done(w, "delete") /\ wk[w].res = "ok" /\ wk[w].remove_files)
        => /\ pm2[Pm2Name(wk[w].name)] = "absent"
           /\ ~DirExists(wk[w].name)
           /\ get_instance(wk[w].id) = {}

\* C12: a toggle persists the flipped dev_mode, then rewrites the launch
\* script, then issues a supervisor restart exactly when the supervisor
\* reported the process online; the commands it has issued at any point are
\* a prefix of that order, and a toggle that returns success has done all.
ToggleRow(w) == CHOOSE r \in get_instance(wk[w].id) : TRUE

ToggleLog(w) ==
    <<"commit", "script">>
    \o (IF wk[w].was.reported = "online" THEN <<"restart">> ELSE <<>>)

C12_ToggleRestartsWhenOnline ==
    \A w \in Workers :
        wk[w].op = "toggle" /\ wk[w].err # "not_found" =>
            /\ wk[w].was.reported = "unasked"
               => IsPrefix(wk[w].log, <<"commit", "script">>)
            /\ wk[w].res = "ok"
               => /\ wk[w].log = ToggleLog(w)
                  /\ ToggleRow(w).dev_mode = ~wk[w].was.dev_mode
                  /\ fs[wk[w].name].script
                        = {RunScript(wk[w].name, ToggleRow(w).version, ToggleRow(w).port,
                                     ~wk[w].was.dev_mode, wk[w].name)}

\* A toggle from dev mode on to off of an online instance, which restarted it.
C12_Witness ==
    \E w \in Workers :
        /\ Done(w, "toggle") /\ wk[w].res = "ok"
        /\ wk[w].was.reported = "online"
        /\ wk[w].log = <<"commit", "script", "restart">>
        /\ wk[w].was.dev_mode

\* C13: whenever no request is under way, the launch script of every
\* registered instance is the text for the registry's dev_mode and port.
C13_ScriptReflectsRegistry ==
    (\A w \in Workers : Ready(w)) =>
        \A r \in registry :
            fs[r.pb_path].script
                = {RunScript(r.name, r.version, r.port, r.dev_mode, r.pb_path)}

\* C14: a call of get_instances_with_status runs one bulk status query, and
\* returns exactly one entry per registry row, whose status is the one the
\* supervisor gave for the row's pm2_name, or stopped when it gave none.
C14_ListJoinsByProcessName ==
    \A w \in Workers :
        Done(w, "list") =>
            LET entries == wk[w].was.entries
                listed(p) == wk[w].was.jlist_ok /\ pm2[p] # "absent"
            IN  /\ wk[w].log = <<"jlist">>
                /\ Cardinality(entries) = Cardinality(registry)
                /\ \A r \in registry :
                     \E e \in entries :
                        /\ e.id = r.id /\ e.name = r.name /\ e.pm2_name = r.pm2_name
                        /\ e.pm2_status = IF listed(r.pm2_name) THEN pm2[r.pm2_name]
                                          ELSE "stopped"

\* Two instances listed, one online and one the supervisor does not know.
C14_Witness ==
    \E w \in Workers :
        /\ Done(w, "list") /\ wk[w].was.jlist_ok
        /\ Cardinality(wk[w].was.entries) = 2
        /\ \E e1, e2 \in wk[w].was.entries :
              /\ e1.pm2_status = "online"
              /\ e2.pm2_status = "stopped" /\ pm2[e2.pm2_name] = "absent"

\* C15: in the result of get_instances_with_status an instance with no
\* supervisor entry has pid, cpu and memory all null.
C15_NullRuntimeFields ==
    \A w \in Workers :
        Done(w, "list") =>
            \A e \in wk[w].was.entries :
                ~(wk[w].was.jlist_ok /\ pm2[e.pm2_name] # "absent")
                => e.pid = {} /\ e.cpu = {} /\ e.memory = {}

\* C16: get_next_available_port returns the floor when the registry is
\* empty or the highest registered port plus one is below the floor, and the
\* highest registered port plus one otherwise; never a registered port; for
\* ports {7200, 7203} and floor 7200 it returns 7204.
C16_NextPort ==
    \A w \in Workers :
        Done(w, "nextport") =>
            LET ports == {r.port : r \in registry}
                result == wk[w].port
            IN  /\ ports = {} => result = DEFAULT_PORT_START
                /\ ports # {} =>
                     IF Max(ports) + 1 < DEFAULT_PORT_START
                     THEN result = DEFAULT_PORT_START
                     ELSE result = Max(ports) + 1
                /\ result \notin ports
                /\ (DEFAULT_PORT_START = 7200 /\ ports = {7200, 7203}) => result = 7204

\* The allocator asked with ports {7200, 7203} registered.
C16_Witness ==
    \E w \in Workers :
        /\ Done(w, "nextport")
        /\ {r.port : r \in registry} = {7200, 7203}
        /\ wk[w].port = 7204

\* C17: sanitize_name returns the raw name with every character outside
\* [A-Za-z0-9_-] replaced by '_', runs of '_' collapsed, leading and trailing
\* '_' trimmed, and lowercased; "My App!! 01" gives "my_app_01"; a non-empty
\* result has only characters of [a-z0-9_-], no two adjacent '_', and no
\* '_' at either end.
AsciiSafe == {"a", "b", "m", "p", "y", "A", "B", "M", "0", "1", "_", "-"}
AsciiLower == {"a", "b", "m", "p", "y", "0", "1", "_", "-"}

AsciiSanitize(s) ==
    Lower(Strip(CollapseUnderscores(
        [i \in 1..Len(s) |-> IF s[i] \in AsciiSafe THEN s[i] ELSE "_"])))

C17_SanitizeAscii ==
    \A w \in Workers :
        Done(w, "sanitize") =>
            LET n == wk[w].name
            IN  /\ n = AsciiSanitize(wk[w].was)
                /\ wk[w].was = MyApp => n = <<"m", "y", "_", "a", "p", "p", "_", "0", "1">>
                /\ n # <<>> =>
                     /\ \A i \in 1..Len(n) : n[i] \in AsciiLower
                     /\ \A i \in 1..(Len(n) - 1) : ~(n[i] = "_" /\ n[i + 1] = "_")
                     /\ n[1] # "_" /\ n[Len(n)] # "_"

\* C18: sanitize_name never returns the empty string as a name: a call whose
\* sanitized result is empty fails.
C18_EmptyNameRejected ==
    \A w \in Workers :
        Done(w, "sanitize") => ~(wk[w].res = "ok" /\ wk[w].name = <<>>)

\* C19: the port step of a create with a supplied port that is registered
\* ends the request with the port-in-use error, and nothing was changed by
\* the request up to and including that step; with a supplied port that is
\* not registered the create goes on with exactly that port; with no port
\* supplied it goes on with get_next_available_port's result; and the row a
\* create inserts has the port the port step chose.
C19_Step(w) ==
    LET taken == \E r \in registry : {r.port} = wk[w].port_arg
    IN  /\ Calls(w, "create") => UNCHANGED <<registry, fs, pm2, cache>>
        /\ wk[w].pc = "c_port" =>
             /\ taken => /\ wk'[w].pc = "done" /\ wk'[w].res = "err"
                         /\ wk'[w].err = "port_in_use"
                         /\ UNCHANGED <<registry, fs, pm2, cache>>
             /\ (wk[w].port_arg # {} /\ ~taken)
                => wk'[w].pc = "c_dl" /\ {wk'[w].port} = wk[w].port_arg
             /\ wk[w].port_arg = {}
                => /\ wk'[w].pc = "c_dl"
                   /\ wk'[w].port = IF registry = {} THEN DEFAULT_PORT_START
                                    ELSE Max({Max({r.port : r \in registry}) + 1,
                                              DEFAULT_PORT_START})
        /\ (wk[w].pc = "c_commit" /\ wk'[w].res = "ok")
           => \E r \in registry' \ registry :
                 r.name = wk[w].name /\ r.port = wk[w].port /\ r.id = wk'[w].id

C19_SuppliedPort ==
    [][\A w \in Workers : (wk'[w] # wk[w] /\ wk'[w].op = "create") => C19_Step(w)]_vars

\* A create with a supplied port was refused because an instance of another
\* name has the port.
C19_Witness ==
    /\ Done(1, "create") /\ wk[1].err = "port_in_use" /\ wk[1].port_arg # {}
    /\ \E r \in registry : {r.port} = wk[1].port_arg /\ r.name # wk[1].name

\* C20: a create whose download fails ends at that step with an error, and
\* no step of a create up to and including the download changes the
\* registry or the instances directory.
C20_DownloadFailsBeforeMutation ==
    [][\A w \in Workers :
         (wk'[w] # wk[w] /\ wk'[w].op = "create") =>
            /\ wk[w].pc \in {"done", "c_port", "c_dl"} => UNCHANGED <<registry, fs>>
            /\ wk'[w].at = "c_dl"
               => /\ wk'[w].pc = "done" /\ wk'[w].res = "err"
                  /\ wk'[w].err = "download"]_vars

\* A create of "a" failed at the download: there is no directory "a" and no row.
C20_Witness ==
    /\ Done(1, "create") /\ wk[1].res = "err" /\ wk[1].at = "c_dl"
    /\ wk[1].name = <<"a">>
    /\ ~fs[<<"a">>].exists /\ registry = {}

\* C21: a create with admin credentials whose superuser step failed or timed
\* out after the row was inserted returns success, with the row, the
\* directory, the launch script and the executable in place.
C21_SuperuserFailureKeepsInstance ==
    \A w \in Workers :
        (/\ Done(w, "create") /\ wk[w].admin
         /\ wk[w].log \in {<<"superuser_failed">>, <<"superuser_timeout">>})
        => wk[w].res = "ok" /\ Intact(w)

C21_Witness ==
    \E w \in Workers :
        /\ Done(w, "create") /\ wk[w].admin /\ wk[w].res = "ok"
        /\ wk[w].log = <<"superuser_timeout">>
        /\ fs[wk[w].name].admins = {}

\* C27: a remove_admin call on an instance that has at least one admin other
\* than the installer account leaves it with at least one, and a call that
\* is refused leaves the admin table as it was.
C27_LastAdminKept ==
    [][\A w \in Workers :
         (Calls(w, "remove_admin") /\ wk'[w].err # "not_found") =>
            LET d == wk'[w].name
            IN  /\ Cardinality(list_admins(fs[d])) >= 1
                   => Cardinality(list_admins(fs'[d])) >= 1
                /\ wk'[w].res = "err" => UNCHANGED fs]_vars

\* The removal of the only admin was refused, with the installer account in
\* the table as well.
C27_Witness ==
    \E w \in Workers :
        /\ Done(w, "remove_admin") /\ wk[w].err = "last_admin"
        /\ Table(fs[wk[w].name]) = {Installer, "u1"}

C23_IdentityImmutable ==
    [][/\ \A r \in registry : \A r2 \in registry' :
             r2.id = r.id => /\ r2.name = r.name /\ r2.port = r.port
                             /\ r2.pm2_name = r.pm2_name /\ r2.pb_path = r.pb_path
       /\ \A r2 \in registry' : r2.pm2_name = <<"p", "b", "_">> \o r2.name]_vars

\* An instance that was updated, toggled, given a domain and started.
C23_Witness ==
    \E r \in registry :
        /\ r.version = "v2" /\ r.dev_mode /\ r.domain = "example.org"
        /\ pm2[r.pm2_name] = "online"
        /\ r.port = DEFAULT_PORT_START /\ r.name = <<"a">>

\* C24: an update_domain request changes nothing but the domain of the row
\* it addresses, which becomes the given domain, or no domain for the empty
\* string; the disk, the supervisor and the cache are untouched.
C24_DomainOnly ==
    [][\A w \in Workers :
         (Calls(w, "domain") /\ wk'[w].err # "not_found") =>
            /\ UNCHANGED <<fs, pm2, cache>>
            /\ wk'[w].failed = {} /\ wk'[w].log = <<>>
            /\ Cardinality(registry') = Cardinality(registry)
            /\ \A r \in registry :
                 IF r.id # wk'[w].id THEN r \in registry'
                 ELSE \E r2 \in registry' :
                        /\ r2 = [r EXCEPT !.domain = r2.domain]
                        /\ wk'[w].res = "err" => r2 = r
                        /\ wk'[w].res = "ok"
                           => r2.domain = IF wk'[w].was = "" THEN "None"
                                          ELSE wk'[w].was]_vars

\* The empty string was given for one of two instances; the other has a domain.
C24_Witness ==
    /\ Done(1, "domain") /\ wk[1].res = "ok" /\ wk[1].was = ""
    /\ \E r1, r2 \in registry :
          /\ r1.id = wk[1].id /\ r1.domain = "None"
          /\ r2.id # wk[1].id /\ r2.domain = "example.org"

\* C25: a delete whose supervisor stop command failed, and a toggle whose
\* supervisor restart command failed, return a failure.
C25_SupervisorFailureReported ==
    \A w \in Workers :
        /\ (Done(w, "delete") /\ "stop" \in wk[w].failed) => wk[w].res = "err"
        /\ (Done(w, "toggle") /\ "restart" \in wk[w].failed) => wk[w].res = "err"

\* C26: update_version, update_domain, delete and toggle_dev_mode called
\* with an id that is not registered fail with not-found in their first
\* step and change nothing.
C26_UnknownIdRejected ==
    [][\A w \in Workers :
         (/\ \E op \in {"update", "domain", "delete", "toggle"} : Calls(w, op)
          /\ get_instance(wk'[w].id) = {})
         => /\ wk'[w].pc = "done" /\ wk'[w].res = "err"
            /\ wk'[w].err = "not_found"
            /\ UNCHANGED <<registry, fs, pm2, cache>>]_vars

\* An update_domain for an unknown id while another instance is registered.
C26_Witness ==
    /\ Done(1, "domain") /\ wk[1].err = "not_found"
    /\ registry # {} /\ get_instance(wk[1].id) = {}

\* C28: no step of a create request that fails validation (a missing name
\* or version, a port that is not an integer, a name that sanitizes to the
\* empty string) changes the registry, the instances directory, the cache
\* or the supervisor, and the request ends with an error.
C28_ValidationChangesNothing ==
    [][\A w \in Workers :
         (/\ wk'[w] # wk[w] /\ wk'[w].op = "create"
          /\ (wk'[w].err = "validation" \/ wk'[w].name = <<>>))
         => /\ UNCHANGED <<registry, fs, pm2, cache>>
            /\ wk'[w].pc = "done" => wk'[w].res = "err"]_vars

\* C29: once download_version(v) has succeeded, a later download_version(v)
\* returns the executable at once: no release lookup, no fetch, and the
\* cache is left as it is.
C29_ResolverIdempotent ==
    [][\A w, w2 \in Workers :
         (/\ Calls(w, "download")
          /\ Done(w2, "download") /\ wk[w2].res = "ok"
          /\ wk[w2].version = wk'[w].version)
         => /\ wk'[w].pc = "done" /\ wk'[w].res = "ok" /\ wk'[w].log = <<>>
            /\ UNCHANGED cache]_vars

\* C30: every supervisor command and the superuser command ends with a
\* definite outcome: success exactly when the command exits with code
\* zero, failure when it exits non-zero or its timeout expires; a command
\* that runs always ends.
C30_CommandOutcome ==
    /\ [](\A w \in Workers :
            Done(w, "command") =>
                /\ wk[w].res \in {"ok", "err"}
                /\ wk[w].res = "ok" <=> wk[w].log = <<"exit", 0>>)
    /\ \A w \in Workers :
          (wk[w].op = "command" /\ wk[w].pc = "running") ~> Done(w, "command")
\* The superuser command ran into its timeout and the call failed.
C30_Witness ==
    \E w \in Workers :
        /\ Done(w, "command") /\ wk[w].at = "superuser"
        /\ wk[w].log = <<"timeout">> /\ wk[w].res = "err"

\* The step is worker w's and takes a port from the allocator: a call of
\* get_next_available_port, or the port step of a create without a port.
Allocates(w) ==
    \/ Calls(w, "nextport")
    \/ wk[w].pc = "c_port" /\ wk[w].port_arg = {} /\ wk'[w].pc = "c_dl"

\* C31: the allocator returns a port freed by an earlier delete only if
\* that port is greater than every port still registered at the time of
\* the call; a freed port below a registered port is never handed out.
C31_FreedPortNotReused ==
    [][\A w, w2 \in Workers :
         (/\ Allocates(w)
          /\ Done(w2, "delete") /\ wk[w2].res = "ok"
          /\ wk'[w].port = wk[w2].port)
         => \A r \in registry : r.port < wk[w2].port]_vars
\* The port of a deleted instance was the highest, and the allocator hands
\* it out again while another instance is registered.
C31_Witness ==
    \E w, w2 \in Workers :
        /\ Done(w, "nextport") /\ Done(w2, "delete") /\ wk[w2].res = "ok"
        /\ wk[w].port = wk[w2].port
        /\ registry # {}
        /\ \A r \in registry : r.port < wk[w].port

\* C32: the version of an instance changes only through a successful
\* update_version: a step that changes it is the commit of an
\* update_version, and an update_version that fails or is rejected leaves
\* the version it found.
C32_VersionOnlyBySuccessfulUpdate ==
    /\ [][\A r \in registry, r2 \in registry' :
            (r.id = r2.id /\ r.version # r2.version)
            => \E w \in Workers :
                  /\ wk[w].op = "update" /\ wk[w].pc = "u_commit"
                  /\ wk[w].id = r.id /\ r2.version = wk[w].version]_vars
    /\ [](\A w \in Workers :
            (Done(w, "update") /\ wk[w].res = "err" /\ get_instance(wk[w].id) # {})
            => \A r \in get_instance(wk[w].id) : r.version = wk[w].was.version)

\* C33: a delete with remove_files = False that returns success has removed
\* the supervisor entry and the registry row, and no step of it changes the
\* instance directory or anything in it.
C33_DeleteKeepsFiles ==
    /\ [](\A w \in Workers :
            (Done(w, "delete") /\ wk[w].res = "ok" /\ ~wk[w].remove_files)
            => /\ pm2[Pm2Name(wk[w].name)] = "absent"
               /\ get_instance(wk[w].id) = {})
    /\ [][\A w \in Workers :
            (/\ wk[w].op = "delete" /\ wk[w].pc # "done" /\ wk'[w] # wk[w]
             /\ ~wk[w].remove_files)
            => UNCHANGED fs]_vars

\* C34: a create called while a directory of the sanitized name exists and
\* no row has the name fails without inserting a row and without touching
\* the directory: it ends at the test of the directory, before the try
\* block whose handler removes the directory.
C34_ExistingDirectoryKept ==
    [][\A w \in Workers :
         (/\ wk[w].op = "create" /\ wk[w].pc \in {"c_port", "c_dl", "c_dir"}
          /\ wk'[w] # wk[w]
          /\ DirExists(wk[w].name))
         => /\ UNCHANGED <<registry, fs>>
            /\ wk'[w].pc \in {"c_dl", "c_dir", "done"}
            /\ wk'[w].pc = "done" => wk'[w].res = "err"]_vars
\* A create stopped at a directory that a delete with remove_files = False
\* had left, with its script and executable still in it.
C34_Witness ==
    \E w \in Workers :
        /\ Done(w, "create") /\ wk[w].err = "dir_exists"
        /\ wk[w].name # <<>>
        /\ fs[wk[w].name].exists /\ fs[wk[w].name].script # {}
        /\ fs[wk[w].name].exe # NoFile
        /\ \A r \in registry : r.name # wk[w].name

\* C35: a bulk status query that failed, timed out or did not parse counts
\* as a supervisor without processes: get_all_status is the empty map,
\* is_running is false for every process name, the list reports every
\* instance as stopped, update_version is not refused for a running
\* instance, and delete issues no stop.
C35_FailedQueryMeansNotRunning ==
    /\ get_all_status(FALSE) = <<>>
    /\ \A p \in DOMAIN pm2 : ~is_running(p, FALSE)
    /\ \A w \in Workers :
          /\ (Done(w, "list") /\ ~wk[w].was.jlist_ok)
             => /\ {e.id : e \in wk[w].was.entries} = {r.id : r \in registry}
                /\ \A e \in wk[w].was.entries : e.pm2_status = "stopped"
          /\ (wk[w].op = "update" /\ wk[w].err # "not_found" /\ ~wk[w].was.jlist_ok)
             => ~wk[w].was.running /\ wk[w].err # "must_stop"
          /\ (wk[w].op = "delete" /\ wk[w].err # "not_found" /\ ~wk[w].was.jlist_ok)
             => /\ ~wk[w].was.running /\ wk[w].pc # "d_stop"
                /\ \A i \in DOMAIN wk[w].log : wk[w].log[i] # "stop"
\* A delete of an instance the supervisor ran, whose status query failed:
\* it returned without a stop.
C35_Witness ==
    \E w \in Workers :
        /\ Done(w, "delete") /\ wk[w].res = "ok"
        /\ ~wk[w].was.jlist_ok /\ wk[w].was.pm2 = "online"
        /\ wk[w].log = <<"pm2_delete", "rmtree", "db_delete">>

\* C36: regenerate_run_script called on an instance as create left it
\* writes the text that create wrote: the script is what it was.
C36_RegenerateAfterCreate ==
    [][\A w \in Workers :
         Calls(w, "regenerate")
         => /\ fs'[wk'[w].name].script = fs[wk'[w].name].script
            /\ wk'[w].res = "ok"
               => \E r \in get_instance(wk'[w].id) :
                     fs'[r.pb_path].script = {RegeneratedScript(r)}]_vars
\* The script of an instance created in dev mode with a port of the caller
\* was regenerated.
C36_Witness ==
    \E w \in Workers :
        /\ Done(w, "regenerate") /\ wk[w].res = "ok"
        /\ \E r \in get_instance(wk[w].id) :
              /\ r.dev_mode /\ r.version = "v2"
              /\ fs[r.pb_path].script =
                    {RunScript(r.name, "v2", DEFAULT_PORT_START, TRUE, r.pb_path)}

\* C37: a start request issues the supervisor start command only for a
\* registered instance whose executable and launch script are in its
\* directory; if the row, the executable or the script is missing the
\* request fails and issues no command.  The command is given the process
\* name of the instance, its run.sh and its directory as working directory.
C37_StartPreconditions ==
    [][\A w \in Workers :
         Calls(w, "start")
         => LET rows == get_instance(wk'[w].id)
                whole == \E r \in rows :
                            /\ DirExists(r.pb_path)
                            /\ fs[r.pb_path].exe # NoFile
                            /\ fs[r.pb_path].script # {}
                issued == wk'[w].log = <<"start">>
            IN  /\ issued <=> whole
                /\ ~issued => /\ wk'[w].log = <<>> /\ wk'[w].res = "err"
                              /\ UNCHANGED pm2
                /\ issued => \E r \in rows :
                                wk'[w].was = [name |-> Pm2Name(r.name),
                                              script |-> <<r.pb_path, "run.sh">>,
                                              cwd |-> r.pb_path]]_vars
\* A start refused for a registered instance whose directory has lost its
\* executable and its script: no command was issued.
C37_Witness ==
    \E w \in Workers :
        /\ Done(w, "start") /\ wk[w].res = "err" /\ wk[w].log = <<>>
        /\ \E r \in get_instance(wk[w].id) :
              DirExists(r.pb_path) /\ fs[r.pb_path].exe = NoFile

\* C38: sanitize_name is idempotent: a non-empty name it returned
\* sanitizes to itself.
C38_SanitizeIdempotent ==
    \A w \in Workers :
        (Done(w, "sanitize") /\ wk[w].name # <<>>)
        => sanitize_name(wk[w].name) = wk[w].name

\* C39: a file manager request whose path leaves the directory of its
\* instance is rejected; list, download, delete, copy and move read, write
\* and remove only locations at or beneath that directory, and change
\* nothing else; delete and move refuse the directory of the instance itself.
FileOps == {"fm_list", "fm_download", "fm_delete", "fm_copy", "fm_move"}

C39_Step(w) ==
    LET call == wk'[w]
        rows == get_instance(call.id)
    IN  /\ UNCHANGED <<registry, pm2, cache>>
        /\ fs' # fs => call.res = "ok"
        /\ \A r \in rows :
              LET root == <<"inst">> \o r.pb_path
                  source == Resolve(root, LStripSlash(call.was.source_path))
                  dest == Resolve(root, LStripSlash(call.was.dest_path))
                  beneath(p) == Len(p) >= 2 /\ p[1] = "inst" /\ <<p[2]>> = r.pb_path
              IN  /\ \A d \in DOMAIN fs : d # r.pb_path => fs'[d] = fs[d]
                  /\ \A t \in call.was.targets : beneath(t)
                  /\ (~beneath(source) \/ ~beneath(dest)) => call.res = "err"
                  /\ (call.op \in {"fm_delete", "fm_move"} /\ source = root)
                     => call.res = "err" /\ UNCHANGED fs
        /\ rows = {} => call.res = "err" /\ UNCHANGED fs

C39_PathsStayInside ==
    [][\A w \in Workers :
         (\E op \in FileOps : Calls(w, op)) => C39_Step(w)]_vars
\* A delete aimed at the executable of the other instance was rejected, and
\* the executable is there.
C39_Witness ==
    \E w \in Workers :
        /\ Done(w, "fm_delete") /\ wk[w].res = "err" /\ wk[w].err = "traversal"
        /\ wk[w].was.source_path = <<"..", "b", "pocketbase">>
        /\ fs[<<"b">>].exe # NoFile
        /\ \E r \in get_instance(wk[w].id) : r.pb_path = <<"a">>

====
